---- MODULE Spec2Model ----
\* Verification model of stx::Option<T> and stx::Result<T, E>
\* (include/stx/internal/option_result.h): the discriminant / storage state
\* machine, payload lifetimes, the combinators and the panicking accessors.
EXTENDS Integers, Sequences, FiniteSets, TLC

\* ---------------------------------------------------------------- bounds

\* Payload values of T and of E are 1..MaxVal; 0 is the value of a moved-from
\* payload (valid but unspecified).
MaxVal == 2

\* ---------------------------------------------------------------- state

VARIABLES
  obj,      \* the Option / Result objects of the caller: name -> object
  last,     \* observation of the operation that ran last
  faults,   \* lifetime errors seen so far (ghost)
  panics,   \* how many times the panic path was entered
  pc,       \* "running", or "aborted" once a panic handler has terminated
  bt        \* the call stack and the backtrace walk over it

vars == <<obj, last, faults, panics, pc, bt>>

\* The caller's named objects.
Locals == {"a", "b"}

\* The temporary that holds the object a call returns by value, until the
\* caller binds it to a name or the full-expression ends.
Temp == "t"

Names == Locals \cup {Temp}

\* ---------------------------------------------------------------- payloads

\* A payload is a value of T, E or of a function's return type.  tag "T" is
\* a plain value; tags "Ok"/"Err"/"Some"/"None" are a Result / Option value
\* that a callable returned; "uninit" is storage holding no object;
\* "void" is the absence of a returned value; "bool" a returned boolean.
Plain(n) == [tag |-> "T", n |-> n]

Uninit == [tag |-> "uninit", n |-> 0]

NoRet == [tag |-> "void", n |-> 0]

Bool(b) == [tag |-> "bool", n |-> IF b THEN 1 ELSE 0]

Vals == {Plain(n) : n \in 1..MaxVal}

\* Whether a storage member holds a constructed object.
Alive(p) == p.tag # "uninit"

\* The state a payload is left in by T(std::move(p)): its variant is kept, its
\* content is given away.
Moved(p) == [p EXCEPT !.n = 0]

\* ---------------------------------------------------------------- objects

\* A name whose object is out of its lifetime.
Dead == [kind |-> "dead"]

InScope(o) == o.kind # "dead"

IsOption(o) == o.kind = "Option"

IsResult(o) == o.kind = "Result"

\* Ghost bookkeeping of one member function call on an object: the lifetime
\* events in program order and the lifetime errors among them.
Note(o, ev, bad, what) ==
  [o EXCEPT !.log = Append(@, ev),
            !.faults = IF bad THEN @ \cup {what} ELSE @]

\* new (&storage_value_) T(p)
construct_value(o, p) ==
  Note([o EXCEPT !.storage_value_ = p], "construct_value",
       Alive(o.storage_value_) \/ (IsResult(o) /\ Alive(o.storage_err_)),
       "overwrite")

\* storage_value_.~T()
destroy_value(o) ==
  Note([o EXCEPT !.storage_value_ = Uninit], "destroy_value",
       ~Alive(o.storage_value_), "double_destroy")

\* std::move(storage_value_) handed to a constructor or returned by value
move_from_value(o) ==
  Note([o EXCEPT !.storage_value_ = Moved(@)], "move_from_value",
       ~Alive(o.storage_value_), "dead_read")

\* a reference to storage_value_ is read
read_value(o) ==
  Note(o, "read_value", ~Alive(o.storage_value_), "dead_read")

\* new (&storage_err_) E(p)
construct_err(o, p) ==
  Note([o EXCEPT !.storage_err_ = p], "construct_err",
       Alive(o.storage_err_) \/ Alive(o.storage_value_), "overwrite")

\* storage_err_.~E()
destroy_err(o) ==
  Note([o EXCEPT !.storage_err_ = Uninit], "destroy_err",
       ~Alive(o.storage_err_), "double_destroy")

\* std::move(storage_err_) handed to a constructor or returned by value
move_from_err(o) ==
  Note([o EXCEPT !.storage_err_ = Moved(@)], "move_from_err",
       ~Alive(o.storage_err_), "dead_read")

\* a reference to storage_err_ is read
read_err(o) ==
  Note(o, "read_err", ~Alive(o.storage_err_), "dead_read")

\* The object as the caller keeps it once the call has returned.
Settle(o) == IF InScope(o) THEN [o EXCEPT !.log = <<>>, !.faults = {}] ELSE o

\* A temporary at the end of its lifetime: its destructor has run and its storage is released.
Released(o) ==
  [o EXCEPT !.faults = IF Alive(o.storage_value_)
                           \/ (IsResult(o) /\ Alive(o.storage_err_))
                        THEN @ \cup {"leak"} ELSE @]

\* What a member function call hands back: the object itself, the other
\* operand, the object returned by value, the plain value or reference
\* returned, the number of invocations of the callable, and whether the call
\* entered the panic path instead of returning.
Outcome(self, arg, out, ret, calls) ==
  [self |-> self, arg |-> arg, out |-> out, ret |-> ret, calls |-> calls,
   panic |-> FALSE]

\* internal::option::* / internal::result::* panic helpers: [[noreturn]], the
\* call never comes back to the member function.
Panicked(self) ==
  [self |-> self, arg |-> Dead, out |-> Dead, ret |-> NoRet, calls |-> 0,
   panic |-> TRUE]

\* ---------------------------------------------------------------- Option<T>

\* Storage of an Option under construction: the union member is not yet an
\* object.
RawOption(none) ==
  [kind |-> "Option", is_none_ |-> none, storage_value_ |-> Uninit,
   log |-> <<>>, faults |-> {}]

\* bool is_none() const
is_none(o) == o.is_none_

\* bool is_some() const
is_some(o) == ~is_none(o)

\* Option(Some<T>&& some)
Option_from_Some(p) == construct_value(RawOption(FALSE), p)

\* Option(NoneType const&)
Option_from_None == RawOption(TRUE)

\* Option(Option&& rhs)
Option_move_ctor(rhs) ==
  IF is_some(rhs)
  THEN Outcome(construct_value(RawOption(rhs.is_none_), rhs.storage_value_),
               move_from_value(rhs), Dead, NoRet, 0)
  ELSE Outcome(RawOption(rhs.is_none_), rhs, Dead, NoRet, 0)

\* std::swap(x, storage_value_) with a T object x that holds p: the object
\* afterwards; x then holds what storage_value_ held.
exchange_value(o, p) ==
  Note([o EXCEPT !.storage_value_ = p], "swap_value",
       ~Alive(o.storage_value_) \/ ~Alive(p), "dead_read")

\* std::swap(storage_value_, rhs.storage_value_)
swap_value(self, rhs) ==
  [self |-> exchange_value(self, rhs.storage_value_),
   rhs  |-> exchange_value(rhs, self.storage_value_)]

\* Option::operator= whose Some <- None branch leaves out storage_value_.~T().
Option_move_assign_no_destroy(self, rhs) ==
  IF is_some(self) /\ is_some(rhs)
  THEN LET sw == swap_value(self, rhs)
       IN  Outcome(sw.self, sw.rhs, Dead, NoRet, 0)
  ELSE IF is_some(self) /\ is_none(rhs)
  THEN LET r1 == construct_value(rhs, self.storage_value_)
           s1 == move_from_value(self)
       IN  Outcome([s1 EXCEPT !.is_none_ = TRUE],
                   [r1 EXCEPT !.is_none_ = FALSE], Dead, NoRet, 0)
  ELSE IF is_none(self) /\ is_some(rhs)
  THEN LET s1 == construct_value(self, rhs.storage_value_)
           r1 == destroy_value(move_from_value(rhs))
       IN  Outcome([s1 EXCEPT !.is_none_ = FALSE],
                   [r1 EXCEPT !.is_none_ = TRUE], Dead, NoRet, 0)
  ELSE Outcome(self, rhs, Dead, NoRet, 0)

\* Option::operator= whose Some <- Some branch move-assigns the payload and
\* leaves rhs moved-from instead of swapping.
Option_move_assign_plain_move(self, rhs) ==
  IF is_some(self) /\ is_some(rhs)
  THEN Outcome(exchange_value(self, rhs.storage_value_),
               move_from_value(rhs), Dead, NoRet, 0)
  ELSE IF is_some(self) /\ is_none(rhs)
  THEN LET r1 == construct_value(rhs, self.storage_value_)
           s1 == destroy_value(move_from_value(self))
       IN  Outcome([s1 EXCEPT !.is_none_ = TRUE],
                   [r1 EXCEPT !.is_none_ = FALSE], Dead, NoRet, 0)
  ELSE IF is_none(self) /\ is_some(rhs)
  THEN LET s1 == construct_value(self, rhs.storage_value_)
           r1 == destroy_value(move_from_value(rhs))
       IN  Outcome([s1 EXCEPT !.is_none_ = FALSE],
                   [r1 EXCEPT !.is_none_ = TRUE], Dead, NoRet, 0)
  ELSE Outcome(self, rhs, Dead, NoRet, 0)

\* Option& operator=(Option&& rhs)
Option_move_assign(self, rhs) ==
  IF is_some(self) /\ is_some(rhs)
  THEN LET sw == swap_value(self, rhs)
       IN  Outcome(sw.self, sw.rhs, Dead, NoRet, 0)
  ELSE IF is_some(self) /\ is_none(rhs)
  THEN LET r1 == construct_value(rhs, self.storage_value_)
           s1 == destroy_value(move_from_value(self))
       IN  Outcome([s1 EXCEPT !.is_none_ = TRUE],
                   [r1 EXCEPT !.is_none_ = FALSE], Dead, NoRet, 0)
  ELSE IF is_none(self) /\ is_some(rhs)
  THEN LET s1 == construct_value(self, rhs.storage_value_)
           r1 == destroy_value(move_from_value(rhs))
       IN  Outcome([s1 EXCEPT !.is_none_ = FALSE],
                   [r1 EXCEPT !.is_none_ = TRUE], Dead, NoRet, 0)
  ELSE Outcome(self, rhs, Dead, NoRet, 0)

\* ~Option()
Option_dtor(self) ==
  IF is_some(self) THEN destroy_value(self) ELSE self

\* Option::value without its `if (is_none_)` check.
Option_value_unchecked(self) ==
  LET s1 == read_value(self)
  IN  Outcome(s1, Dead, Dead, s1.storage_value_, 0)

\* T& value() &  /  T const& value() const&
Option_value(self) ==
  IF self.is_none_
  THEN Panicked(self)
  ELSE LET s1 == read_value(self)
       IN  Outcome(s1, Dead, Dead, s1.storage_value_, 0)

\* T expect(std::string_view msg) &&
Option_expect(self) ==
  IF is_some(self)
  THEN Outcome(move_from_value(self), Dead, Dead, self.storage_value_, 0)
  ELSE Panicked(self)

\* Option::unwrap that marks the Option None once the payload is moved out.
Option_unwrap_marks_none(self) ==
  IF is_some(self)
  THEN Outcome([destroy_value(move_from_value(self)) EXCEPT !.is_none_ = TRUE],
               Dead, Dead, self.storage_value_, 0)
  ELSE Panicked(self)

\* T unwrap() &&
Option_unwrap(self) ==
  IF is_some(self)
  THEN Outcome(move_from_value(self), Dead, Dead, self.storage_value_, 0)
  ELSE Panicked(self)

\* void expect_none(std::string_view msg) &&
Option_expect_none(self) ==
  IF is_some(self)
  THEN Panicked(read_value(self))
  ELSE Outcome(self, Dead, Dead, NoRet, 0)

\* void unwrap_none() &&
Option_unwrap_none(self) ==
  IF is_some(self)
  THEN Panicked(read_value(self))
  ELSE Outcome(self, Dead, Dead, NoRet, 0)

\* Option::take that leaves out `is_none_ = true`.
Option_take_keeps_flag(self) ==
  IF is_some(self)
  THEN LET some == self.storage_value_
           s1   == destroy_value(move_from_value(self))
       IN  Outcome(s1, Dead, Option_from_Some(some), NoRet, 0)
  ELSE Outcome(self, Dead, Option_from_None, NoRet, 0)

\* Option take()
Option_take(self) ==
  IF is_some(self)
  THEN LET some == self.storage_value_
           s1   == destroy_value(move_from_value(self))
       IN  Outcome([s1 EXCEPT !.is_none_ = TRUE], Dead,
                   Option_from_Some(some), NoRet, 0)
  ELSE Outcome(self, Dead, Option_from_None, NoRet, 0)

\* Option::replace that leaves out `is_none_ = false` on a None.
Option_replace_keeps_flag(self, replacement) ==
  IF is_some(self)
  THEN LET old == self.storage_value_
           s1  == exchange_value(self, replacement)
       IN  Outcome(s1, Dead, Option_from_Some(old), NoRet, 0)
  ELSE LET s1 == construct_value(self, replacement)
       IN  Outcome(s1, Dead, Option_from_None, NoRet, 0)

\* Option replace(T&& replacement)
Option_replace(self, replacement) ==
  IF is_some(self)
  THEN LET old == self.storage_value_
           s1  == exchange_value(self, replacement)
       IN  Outcome(s1, Dead, Option_from_Some(old), NoRet, 0)
  ELSE LET s1 == construct_value(self, replacement)
       IN  Outcome([s1 EXCEPT !.is_none_ = FALSE], Dead, Option_from_None,
                   NoRet, 0)

\* Option::replace(T const&) that placement-news the copy over a live payload
\* instead of swapping it in.
Option_replace_copy_overwrites(self, replacement) ==
  LET s1 == construct_value(self, replacement)
  IN  Outcome([s1 EXCEPT !.is_none_ = FALSE], Dead,
              IF is_some(self) THEN Option_from_Some(self.storage_value_)
              ELSE Option_from_None, NoRet, 0)

\* Option replace(T const& replacement)
Option_replace_copy(self, replacement) ==
  IF is_some(self)
  THEN LET copy == replacement
           old  == self.storage_value_
           s1   == exchange_value(self, copy)
       IN  Outcome(s1, Dead, Option_from_Some(old), NoRet, 0)
  ELSE LET s1 == construct_value(self, replacement)
       IN  Outcome([s1 EXCEPT !.is_none_ = FALSE], Dead, Option_from_None,
                   NoRet, 0)

\* ---------------------------------------------------------------- callables

\* The callables handed to the combinators.  "id" and "inc" return a plain
\* value, "mk_err" and "mk_ok" return a Result (an Err, an Ok), "mk_none" and
\* "mk_some" return an Option.
PlainFns == {"id", "inc"}

ResultFns == {"mk_err", "mk_ok"}

OptionFns == {"mk_none", "mk_some"}

\* Callables that take no argument and return a plain value.
NullaryFns == {"one", "top"}

\* Unary predicates on a T const&.
Predicates == {"is_even", "is_one"}

\* invocable<Fn&&, T&&>: the callables take a plain value.
Invocable(f, p) == p.tag = "T"

\* std::forward<Fn&&>(op)(std::move(p))
Call(f, p) ==
  CASE f = "id"     -> p
    [] f = "inc"    -> Plain((p.n % MaxVal) + 1)
    [] f = "mk_err" -> [tag |-> "Err", n |-> p.n]
    [] f = "mk_ok"  -> [tag |-> "Ok", n |-> p.n]
    [] f = "mk_none" -> [tag |-> "None", n |-> 0]
    [] f = "mk_some" -> [tag |-> "Some", n |-> p.n]
    [] f = "sq"     -> Plain(p.n * p.n)

\* std::forward<Fn&&>(op)()
Call0(f) ==
  CASE f = "one" -> Plain(1)
    [] f = "top" -> Plain(MaxVal)

\* std::forward<UnaryPredicate&&>(predicate)(value_cref_())
Test(predicate, p) ==
  CASE predicate = "is_even" -> p.n % 2 = 0
    [] predicate = "is_one"  -> p.n = 1

\* ---------------------------------------------------------------- Result<T, E>

\* Storage of a Result under construction: neither union member is an object.
RawResult(ok) ==
  [kind |-> "Result", is_ok_ |-> ok, storage_value_ |-> Uninit,
   storage_err_ |-> Uninit, log |-> <<>>, faults |-> {}]

\* bool is_ok() const
is_ok(o) == o.is_ok_

\* Result::is_err that forgets the negation.
is_err_not_negated(o) == is_ok(o)

\* bool is_err() const
is_err(o) == ~is_ok(o)

\* Result(Ok<T>&& result)
Result_from_Ok(p) == construct_value(RawResult(TRUE), p)

\* Result(Err<E>&& err)
Result_from_Err(p) == construct_err(RawResult(FALSE), p)

\* Result(Result&& rhs)
Result_move_ctor(rhs) ==
  IF is_ok(rhs)
  THEN Outcome(construct_value(RawResult(rhs.is_ok_), rhs.storage_value_),
               move_from_value(rhs), Dead, NoRet, 0)
  ELSE Outcome(construct_err(RawResult(rhs.is_ok_), rhs.storage_err_),
               move_from_err(rhs), Dead, NoRet, 0)

\* std::swap(x, storage_err_) with an E object x that holds p
exchange_err(o, p) ==
  Note([o EXCEPT !.storage_err_ = p], "swap_err",
       ~Alive(o.storage_err_) \/ ~Alive(p), "dead_read")

\* std::swap(err_ref_(), rhs.err_ref_())
swap_err(self, rhs) ==
  [self |-> exchange_err(self, rhs.storage_err_),
   rhs  |-> exchange_err(rhs, self.storage_err_)]

\* Result::operator= that constructs the incoming payload before it destroys
\* the outgoing one.
Result_move_assign_ctor_first(self, rhs) ==
  IF is_ok(self) /\ is_ok(rhs)
  THEN LET sw == swap_value(self, rhs)
       IN  Outcome(sw.self, sw.rhs, Dead, NoRet, 0)
  ELSE IF is_ok(self) /\ is_err(rhs)
  THEN LET s1 == destroy_value(construct_err(self, rhs.storage_err_))
       IN  Outcome([s1 EXCEPT !.is_ok_ = FALSE], move_from_err(rhs), Dead,
                   NoRet, 0)
  ELSE IF is_err(self) /\ is_ok(rhs)
  THEN LET s1 == destroy_err(construct_value(self, rhs.storage_value_))
       IN  Outcome([s1 EXCEPT !.is_ok_ = TRUE], move_from_value(rhs), Dead,
                   NoRet, 0)
  ELSE LET sw == swap_err(self, rhs)
       IN  Outcome(sw.self, sw.rhs, Dead, NoRet, 0)

\* Result& operator=(Result&& rhs)
Result_move_assign(self, rhs) ==
  IF is_ok(self) /\ is_ok(rhs)
  THEN LET sw == swap_value(self, rhs)
       IN  Outcome(sw.self, sw.rhs, Dead, NoRet, 0)
  ELSE IF is_ok(self) /\ is_err(rhs)
  THEN LET s1 == construct_err(destroy_value(self), rhs.storage_err_)
       IN  Outcome([s1 EXCEPT !.is_ok_ = FALSE], move_from_err(rhs), Dead,
                   NoRet, 0)
  ELSE IF is_err(self) /\ is_ok(rhs)
  THEN LET s1 == construct_value(destroy_err(self), rhs.storage_value_)
       IN  Outcome([s1 EXCEPT !.is_ok_ = TRUE], move_from_value(rhs), Dead,
                   NoRet, 0)
  ELSE LET sw == swap_err(self, rhs)
       IN  Outcome(sw.self, sw.rhs, Dead, NoRet, 0)

\* ~Result()
Result_dtor(self) ==
  IF is_ok(self) THEN destroy_value(self) ELSE destroy_err(self)

\* T& value() &  /  T const& value() const&
Result_value(self) ==
  IF is_err(self)
  THEN Panicked(read_err(self))
  ELSE LET s1 == read_value(self)
       IN  Outcome(s1, Dead, Dead, s1.storage_value_, 0)

\* Result::err_value whose check is inverted.
Result_err_value_inverted(self) ==
  IF ~self.is_ok_
  THEN Panicked(read_value(self))
  ELSE LET s1 == read_err(self)
       IN  Outcome(s1, Dead, Dead, s1.storage_err_, 0)

\* E& err_value() &  /  E const& err_value() const&
Result_err_value(self) ==
  IF self.is_ok_
  THEN Panicked(read_value(self))
  ELSE LET s1 == read_err(self)
       IN  Outcome(s1, Dead, Dead, s1.storage_err_, 0)

\* T unwrap() &&
Result_unwrap(self) ==
  IF is_err(self)
  THEN Panicked(read_err(self))
  ELSE Outcome(move_from_value(self), Dead, Dead, self.storage_value_, 0)

\* T expect(std::string_view msg) &&
Result_expect(self) ==
  IF is_err(self)
  THEN Panicked(read_err(self))
  ELSE Outcome(move_from_value(self), Dead, Dead, self.storage_value_, 0)

\* E unwrap_err() &&
Result_unwrap_err(self) ==
  IF is_ok(self)
  THEN Panicked(read_value(self))
  ELSE Outcome(move_from_err(self), Dead, Dead, self.storage_err_, 0)

\* E expect_err(std::string_view msg) &&
Result_expect_err(self) ==
  IF is_ok(self)
  THEN Panicked(read_value(self))
  ELSE Outcome(move_from_err(self), Dead, Dead, self.storage_err_, 0)

\* Result<invoke_result<Fn&&, T&&>, E> map(Fn&& op) &&
Result_map(self, op) ==
  IF is_ok(self)
  THEN Outcome(move_from_value(self), Dead,
               Result_from_Ok(Call(op, self.storage_value_)), NoRet, 1)
  ELSE Outcome(move_from_err(self), Dead,
               Result_from_Err(self.storage_err_), NoRet, 0)

\* Result::map_err that applies op to the Ok payload as well.
Result_map_err_maps_ok(self, op) ==
  IF is_ok(self)
  THEN Outcome(move_from_value(self), Dead,
               Result_from_Ok(Call(op, self.storage_value_)), NoRet, 1)
  ELSE Outcome(move_from_err(self), Dead,
               Result_from_Err(Call(op, self.storage_err_)), NoRet, 1)

\* Result<T, invoke_result<Fn&&, E&&>> map_err(Fn&& op) &&
Result_map_err(self, op) ==
  IF is_ok(self)
  THEN Outcome(move_from_value(self), Dead,
               Result_from_Ok(self.storage_value_), NoRet, 0)
  ELSE Outcome(move_from_err(self), Dead,
               Result_from_Err(Call(op, self.storage_err_)), NoRet, 1)

\* Result::and_then that hands the payload of an Err to op too.
Result_and_then_calls_on_err(self, op) ==
  IF is_ok(self)
  THEN Outcome(move_from_value(self), Dead,
               Result_from_Ok(Call(op, self.storage_value_)), NoRet, 1)
  ELSE Outcome(move_from_err(self), Dead,
               Result_from_Err(Call(op, self.storage_err_)), NoRet, 1)

\* Result::and_then that hands the payload on without invoking op.
Result_and_then_skips_op(self, op) ==
  IF is_ok(self)
  THEN Outcome(move_from_value(self), Dead,
               Result_from_Ok(self.storage_value_), NoRet, 0)
  ELSE Outcome(move_from_err(self), Dead,
               Result_from_Err(self.storage_err_), NoRet, 0)

\* Result<invoke_result<Fn&&, T&&>, E> and_then(Fn&& op) &&
Result_and_then(self, op) ==
  IF is_ok(self)
  THEN Outcome(move_from_value(self), Dead,
               Result_from_Ok(Call(op, self.storage_value_)), NoRet, 1)
  ELSE Outcome(move_from_err(self), Dead,
               Result_from_Err(self.storage_err_), NoRet, 0)

\* Option::map that hands the payload on without invoking op.
Option_map_skips_call(self, op) ==
  IF is_some(self)
  THEN Outcome(move_from_value(self), Dead,
               Option_from_Some(self.storage_value_), NoRet, 0)
  ELSE Outcome(self, Dead, Option_from_None, NoRet, 0)

\* Option<invoke_result<Fn&&, T&&>> map(Fn&& op) &&
Option_map(self, op) ==
  IF is_some(self)
  THEN Outcome(move_from_value(self), Dead,
               Option_from_Some(Call(op, self.storage_value_)), NoRet, 1)
  ELSE Outcome(self, Dead, Option_from_None, NoRet, 0)

\* ---------------------------------------------------------------- combinators

\* The container a callable returns by value: the prvalue it returns is the
\* object the caller receives.
Returned(p) ==
  CASE p.tag = "Ok"   -> Result_from_Ok(Plain(p.n))
    [] p.tag = "Err"  -> Result_from_Err(Plain(p.n))
    [] p.tag = "Some" -> Option_from_Some(Plain(p.n))
    [] p.tag = "None" -> Option_from_None

\* Result::or_else that wraps what op returns as the payload of an Err.
Result_or_else_wraps(self, op) ==
  IF is_ok(self)
  THEN Outcome(move_from_value(self), Dead,
               Result_from_Ok(self.storage_value_), NoRet, 0)
  ELSE Outcome(move_from_err(self), Dead,
               Result_from_Err(Call(op, self.storage_err_)), NoRet, 1)

\* invoke_result<Fn&&, E&&> or_else(Fn&& op) &&
Result_or_else(self, op) ==
  IF is_ok(self)
  THEN Outcome(move_from_value(self), Dead,
               Result_from_Ok(self.storage_value_), NoRet, 0)
  ELSE Outcome(move_from_err(self), Dead,
               Returned(Call(op, self.storage_err_)), NoRet, 1)

\* Result::AND that returns res whatever the variant of *this.
Result_AND_always_res(self, res) ==
  LET mc == Result_move_ctor(res)
  IN  Outcome(self, mc.arg, mc.self, NoRet, 0)

\* Result<U, F> AND(Result<U, F>&& res) &&
Result_AND(self, res) ==
  IF is_ok(self)
  THEN LET mc == Result_move_ctor(res)
       IN  Outcome(self, mc.arg, mc.self, NoRet, 0)
  ELSE Outcome(move_from_err(self), res,
               Result_from_Err(self.storage_err_), NoRet, 0)

\* Result<U, F> OR(Result<U, F>&& alt) &&
Result_OR(self, alt) ==
  IF is_ok(self)
  THEN Outcome(move_from_value(self), alt,
               Result_from_Ok(self.storage_value_), NoRet, 0)
  ELSE LET mc == Result_move_ctor(alt)
       IN  Outcome(self, mc.arg, mc.self, NoRet, 0)

\* Option<U> AND(Option<U>&& cmp) &&
Option_AND(self, cmp) ==
  IF is_some(self)
  THEN LET mc == Option_move_ctor(cmp)
       IN  Outcome(self, mc.arg, mc.self, NoRet, 0)
  ELSE Outcome(self, cmp, Option_from_None, NoRet, 0)

\* Option OR(Option&& alt) &&
Option_OR(self, alt) ==
  IF is_some(self)
  THEN LET mc == Option_move_ctor(self)
       IN  Outcome(mc.arg, alt, mc.self, NoRet, 0)
  ELSE LET mc == Option_move_ctor(alt)
       IN  Outcome(self, mc.arg, mc.self, NoRet, 0)

\* Option::XOR without its `alt.is_none()` / `is_none()` conditions.
Option_XOR_as_OR(self, alt) ==
  IF is_some(self)
  THEN LET mc == Option_move_ctor(self)
       IN  Outcome(mc.arg, alt, mc.self, NoRet, 0)
  ELSE IF is_some(alt)
  THEN LET mc == Option_move_ctor(alt)
       IN  Outcome(self, mc.arg, mc.self, NoRet, 0)
  ELSE Outcome(self, alt, Option_from_None, NoRet, 0)

\* Option XOR(Option&& alt) &&
Option_XOR(self, alt) ==
  IF is_some(self) /\ is_none(alt)
  THEN LET mc == Option_move_ctor(self)
       IN  Outcome(mc.arg, alt, mc.self, NoRet, 0)
  ELSE IF is_none(self) /\ is_some(alt)
  THEN LET mc == Option_move_ctor(alt)
       IN  Outcome(self, mc.arg, mc.self, NoRet, 0)
  ELSE Outcome(self, alt, Option_from_None, NoRet, 0)

\* Option::and_then that wraps what op returns in a Some, as map does.
Option_and_then_wraps(self, op) ==
  IF is_some(self)
  THEN Outcome(move_from_value(self), Dead,
               Option_from_Some(Call(op, self.storage_value_)), NoRet, 1)
  ELSE Outcome(self, Dead, Option_from_None, NoRet, 0)

\* invoke_result<Fn&&, T&&> and_then(Fn&& op) &&
Option_and_then(self, op) ==
  IF is_some(self)
  THEN Outcome(move_from_value(self), Dead,
               Returned(Call(op, self.storage_value_)), NoRet, 1)
  ELSE Outcome(self, Dead, Option_from_None, NoRet, 0)

\* Option filter(UnaryPredicate&& predicate) &&
Option_filter(self, predicate) ==
  IF is_some(self)
  THEN IF Test(predicate, self.storage_value_)
       THEN LET mc == Option_move_ctor(read_value(self))
            IN  Outcome(mc.arg, Dead, mc.self, NoRet, 1)
       ELSE Outcome(read_value(self), Dead, Option_from_None, NoRet, 1)
  ELSE Outcome(self, Dead, Option_from_None, NoRet, 0)

\* Option::filter_not that forgets to negate the predicate.
Option_filter_not_not_negated(self, predicate) ==
  IF is_some(self)
  THEN IF Test(predicate, self.storage_value_)
       THEN LET mc == Option_move_ctor(read_value(self))
            IN  Outcome(mc.arg, Dead, mc.self, NoRet, 1)
       ELSE Outcome(read_value(self), Dead, Option_from_None, NoRet, 1)
  ELSE Outcome(self, Dead, Option_from_None, NoRet, 0)

\* Option filter_not(UnaryPredicate&& predicate) &&
Option_filter_not(self, predicate) ==
  IF is_some(self)
  THEN IF ~Test(predicate, self.storage_value_)
       THEN LET mc == Option_move_ctor(read_value(self))
            IN  Outcome(mc.arg, Dead, mc.self, NoRet, 1)
       ELSE Outcome(read_value(self), Dead, Option_from_None, NoRet, 1)
  ELSE Outcome(self, Dead, Option_from_None, NoRet, 0)

\* Result<T, E> ok_or(E error) &&
Option_ok_or(self, error) ==
  IF is_some(self)
  THEN Outcome(move_from_value(self), Dead,
               Result_from_Ok(self.storage_value_), NoRet, 0)
  ELSE Outcome(self, Dead, Result_from_Err(error), NoRet, 0)

\* Option::ok_or_else that evaluates op before it looks at the variant.
Option_ok_or_else_eager(self, op) ==
  IF is_some(self)
  THEN Outcome(move_from_value(self), Dead,
               Result_from_Ok(self.storage_value_), NoRet, 1)
  ELSE Outcome(self, Dead, Result_from_Err(Call0(op)), NoRet, 1)

\* Result<T, invoke_result<Fn&&>> ok_or_else(Fn&& op) &&
Option_ok_or_else(self, op) ==
  IF is_some(self)
  THEN Outcome(move_from_value(self), Dead,
               Result_from_Ok(self.storage_value_), NoRet, 0)
  ELSE Outcome(self, Dead, Result_from_Err(Call0(op)), NoRet, 1)

\* Option<T> ok() &&
Result_ok(self) ==
  IF is_ok(self)
  THEN Outcome(move_from_value(self), Dead,
               Option_from_Some(self.storage_value_), NoRet, 0)
  ELSE Outcome(self, Dead, Option_from_None, NoRet, 0)

\* Result::err whose branches are exchanged.
Result_err_inverted(self) ==
  IF is_ok(self)
  THEN Outcome(move_from_value(self), Dead,
               Option_from_Some(self.storage_value_), NoRet, 0)
  ELSE Outcome(self, Dead, Option_from_None, NoRet, 0)

\* Option<E> err() &&
Result_err(self) ==
  IF is_ok(self)
  THEN Outcome(self, Dead, Option_from_None, NoRet, 0)
  ELSE Outcome(move_from_err(self), Dead,
               Option_from_Some(self.storage_err_), NoRet, 0)

\* T unwrap_or(T&& alt) &&
Option_unwrap_or(self, alt) ==
  IF is_some(self)
  THEN Outcome(move_from_value(self), Dead, Dead, self.storage_value_, 0)
  ELSE Outcome(self, Dead, Dead, alt, 0)

\* Option::unwrap_or_else that treats a None as unwrap does.
Option_unwrap_or_else_panics(self, op) ==
  IF is_some(self)
  THEN Outcome(move_from_value(self), Dead, Dead, self.storage_value_, 0)
  ELSE Panicked(self)

\* T unwrap_or_else(Fn&& op) &&
Option_unwrap_or_else(self, op) ==
  IF is_some(self)
  THEN Outcome(move_from_value(self), Dead, Dead, self.storage_value_, 0)
  ELSE Outcome(self, Dead, Dead, Call0(op), 1)

\* Option::operator== under which two None compare unequal.
Option_eq_none_unequal(self, cmp) ==
  IF is_some(self) /\ is_some(cmp)
  THEN self.storage_value_ = cmp.storage_value_
  ELSE FALSE

\* bool operator==(Option const& cmp) const
Option_eq(self, cmp) ==
  IF is_some(self) /\ is_some(cmp)
  THEN self.storage_value_ = cmp.storage_value_
  ELSE IF is_none(self) /\ is_none(cmp)
  THEN TRUE
  ELSE FALSE

\* ---------------------------------------------------------------- match, ==

\* A branch function of match is invoked: the call is recorded on the
\* container it is made for.
invoke(o, branch) == Note(o, branch, FALSE, "none")

\* invoke_result<SomeFn&&, T&&> match(SomeFn&& some_fn, NoneFn&& none_fn) &&
Option_match(self, some_fn, none_fn) ==
  IF is_some(self)
  THEN Outcome(invoke(move_from_value(self), "some_fn"), Dead, Dead,
               Call(some_fn, self.storage_value_), 1)
  ELSE Outcome(invoke(self, "none_fn"), Dead, Dead, Call0(none_fn), 1)

\* Result::match that hands the payload of an Err to ok_fn.
Result_match_err_to_ok_fn(self, ok_fn, err_fn) ==
  IF is_ok(self)
  THEN Outcome(invoke(move_from_value(self), "ok_fn"), Dead, Dead,
               Call(ok_fn, self.storage_value_), 1)
  ELSE Outcome(invoke(move_from_err(self), "ok_fn"), Dead, Dead,
               Call(ok_fn, self.storage_err_), 1)

\* invoke_result<OkFn&&, T&&> match(OkFn&& ok_fn, ErrFn&& err_fn) &&
Result_match(self, ok_fn, err_fn) ==
  IF is_ok(self)
  THEN Outcome(invoke(move_from_value(self), "ok_fn"), Dead, Dead,
               Call(ok_fn, self.storage_value_), 1)
  ELSE Outcome(invoke(move_from_err(self), "err_fn"), Dead, Dead,
               Call(err_fn, self.storage_err_), 1)

\* bool operator==(Some<T> const& cmp) const
Option_eq_Some(self, cmp) ==
  IF is_some(self)
  THEN self.storage_value_ = cmp
  ELSE FALSE

\* Option::operator==(NoneType const&) that answers is_some().
Option_eq_None_inverted(self) == is_some(self)

\* bool operator==(NoneType const&) const
Option_eq_None(self) == is_none(self)

\* ---------------------------------------------------------------- TRY_OK, TRY_SOME

\* Result<T, E> make_ok(T value)
make_ok(value) == Result_from_Ok(value)

\* Result<T, E> make_err(E err)
make_err(err) == Result_from_Err(err)

\* Option<T> make_some(T value)
make_some(value) == Option_from_Some(value)

\* Option<T> make_none()
make_none == Option_from_None

\* The source expressions handed to the macros: calls that return a container
\* by value (decltype(expr)::value_type needs a non-reference type).
ResultExprs == {"make_err", "make_ok"}

OptionExprs == {"make_none", "make_some"}

\* One evaluation of the source expression `expr(v)`.
Eval(expr, v) ==
  CASE expr = "make_ok"   -> make_ok(v)
    [] expr = "make_err"  -> make_err(v)
    [] expr = "make_some" -> make_some(v)
    [] expr = "make_none" -> make_none

\* Control reaches the `return` of a macro, or the declaration of its
\* identifier: recorded on the macro's temporary.
reach(o, stmt) == Note(o, stmt, FALSE, "none")

\* TRY_OK whose last line evaluates result_expr again instead of using the
\* temporary.
TRY_OK_evaluates_twice(result_expr, v) ==
  LET tmp == Eval(result_expr, v)
  IN  IF is_err(tmp)
      THEN LET u == Result_unwrap_err(tmp)
           IN  IF u.panic
               THEN Panicked(u.self)
               ELSE Outcome(Released(Result_dtor(reach(u.self, "return"))),
                            Dead, Result_from_Err(u.ret), NoRet, 1)
      ELSE LET u == Result_unwrap(Eval(result_expr, v))
           IN  IF u.panic
               THEN Panicked(u.self)
               ELSE Outcome(Released(Result_dtor(reach(tmp, "bind"))),
                            Released(Result_dtor(u.self)), Dead, u.ret, 2)

\* #define TRY_OK(identifier, result_expr), in a function that ends after it:
\* self is the macro's temporary at the end of its lifetime, out the Result
\* the enclosing function returned early, ret the value bound to identifier,
\* calls the number of evaluations of result_expr.
TRY_OK(result_expr, v) ==
  LET tmp == Eval(result_expr, v)
  IN  IF is_err(tmp)
      THEN LET u == Result_unwrap_err(tmp)
           IN  IF u.panic
               THEN Panicked(u.self)
               ELSE Outcome(Released(Result_dtor(reach(u.self, "return"))),
                            Dead, Result_from_Err(u.ret), NoRet, 1)
      ELSE LET u == Result_unwrap(tmp)
           IN  IF u.panic
               THEN Panicked(u.self)
               ELSE Outcome(Released(Result_dtor(reach(u.self, "bind"))),
                            Dead, Dead, u.ret, 1)

\* TRY_SOME whose check is `is_some()` instead of `is_none()`.
TRY_SOME_check_inverted(option_expr, v) ==
  LET tmp == Eval(option_expr, v)
  IN  IF is_some(tmp)
      THEN Outcome(Released(Option_dtor(reach(tmp, "return"))), Dead,
                   Option_from_None, NoRet, 1)
      ELSE LET u == Option_unwrap(tmp)
           IN  IF u.panic
               THEN Panicked(u.self)
               ELSE Outcome(Released(Option_dtor(reach(u.self, "bind"))),
                            Dead, Dead, u.ret, 1)

\* #define TRY_SOME(identifier, option_expr), in a function that ends after it
TRY_SOME(option_expr, v) ==
  LET tmp == Eval(option_expr, v)
  IN  IF is_none(tmp)
      THEN Outcome(Released(Option_dtor(reach(tmp, "return"))), Dead,
                   Option_from_None, NoRet, 1)
      ELSE LET u == Option_unwrap(tmp)
           IN  IF u.panic
               THEN Panicked(u.self)
               ELSE Outcome(Released(Option_dtor(reach(u.self, "bind"))),
                            Dead, Dead, u.ret, 1)

\* ---------------------------------------------------------------- backtrace

\* How many frames of the test runner lie below the test body on the stack.
MaxOuter == 2

\* The frame consumers handed to backtrace::trace: the one of the test, which
\* logs every frame, and two that ask the walk to stop.
Callbacks == {"log_frame", "first_only", "until_b"}

\* The call stack before the test runs: k frames of the runner.  phase is
\* "calling" while functions are entered, "walking" inside backtrace::trace,
\* "walked" once the walk has ended; walk is the position of the frame to
\* deliver next, frames what the callback was given, in order; traced is the
\* stack as it was when the walk began.
Stack(k, cb) ==
  [stack |-> [i \in 1..k |-> "runner"], phase |-> "calling", walk |-> 0,
   frames |-> <<>>, traced |-> <<>>, cb |-> cb]

\* No test is running.
NoTrace == [stack |-> <<>>, phase |-> "idle", walk |-> 0, frames |-> <<>>,
            traced |-> <<>>, cb |-> "-"]

\* The frame consumer of the test as a consumer that stops at once.
log_frame_stops(frame, i) == TRUE

\* [](Frame frame, int) { ...; return false; }: logs the frame's symbol and
\* ip, never asks to stop.
log_frame(frame, i) == FALSE

\* What the consumer cb answers for the i-th frame delivered: true to stop.
Stops(cb, frame, i) ==
  CASE cb = "log_frame"  -> log_frame(frame, i)
    [] cb = "first_only" -> TRUE
    [] cb = "until_b"    -> frame = "b"

\* ---------------------------------------------------------------- as_ref

\* MutRef<T>(value_ref_()) / MutRef<E>(err_ref_()): a
\* std::reference_wrapper bound to the member `slot` of the container as_ref
\* was called on.
MutRef(slot) == [tag |-> "ref_" \o slot, n |-> 0]

\* ConstRef<T>(value_cref_()) / ConstRef<E>(err_cref_())
ConstRef(slot) == [tag |-> "cref_" \o slot, n |-> 0]

\* ref.get() = v: the member `ref` is bound to is assigned v.  A payload that
\* is no reference is an object of its own, assigning it leaves `self` alone.
assign(self, ref, v) ==
  CASE ref.tag = "ref_value" ->
         Note([self EXCEPT !.storage_value_ = v], "write_value",
              ~Alive(self.storage_value_), "dead_write")
    [] ref.tag = "ref_err" ->
         Note([self EXCEPT !.storage_err_ = v], "write_err",
              ~Alive(self.storage_err_), "dead_write")
    [] OTHER -> self

\* ref.get() read: the value of the member `ref` is bound to.
get(self, ref) ==
  CASE ref.tag \in {"ref_value", "cref_value"} -> self.storage_value_
    [] ref.tag \in {"ref_err", "cref_err"}     -> self.storage_err_
    [] OTHER -> ref

\* Option<ConstRef<T>> as_cref() const&
Option_as_cref(self) ==
  IF is_some(self)
  THEN Outcome(self, Dead, Option_from_Some(ConstRef("value")), NoRet, 0)
  ELSE Outcome(self, Dead, Option_from_None, NoRet, 0)

\* Option::as_ref whose view holds a copy of the payload.
Option_as_ref_copies(self) ==
  IF is_some(self)
  THEN Outcome(read_value(self), Dead, Option_from_Some(self.storage_value_),
               NoRet, 0)
  ELSE Outcome(self, Dead, Option_from_None, NoRet, 0)

\* Option<MutRef<T>> as_ref() &
Option_as_ref(self) ==
  IF is_some(self)
  THEN Outcome(self, Dead, Option_from_Some(MutRef("value")), NoRet, 0)
  ELSE Outcome(self, Dead, Option_from_None, NoRet, 0)

\* Result<ConstRef<T>, ConstRef<E>> as_cref() const&
Result_as_cref(self) ==
  IF is_ok(self)
  THEN Outcome(self, Dead, Result_from_Ok(ConstRef("value")), NoRet, 0)
  ELSE Outcome(self, Dead, Result_from_Err(ConstRef("err")), NoRet, 0)

\* Result<MutRef<T>, MutRef<E>> as_ref() &
Result_as_ref(self) ==
  IF is_ok(self)
  THEN Outcome(self, Dead, Result_from_Ok(MutRef("value")), NoRet, 0)
  ELSE Outcome(self, Dead, Result_from_Err(MutRef("err")), NoRet, 0)

\* r.as_ref().match([](MutRef<T> ref) { ref.get() = v; }, []() {}): the view
\* is a temporary, matched and destroyed within the expression (r.arg).
Option_mutate(self, v) ==
  LET r1   == Option_as_ref(self)
      view == r1.out
  IN  IF is_some(view)
      THEN Outcome(assign(r1.self, view.storage_value_, v),
                   Released(Option_dtor(invoke(move_from_value(view),
                                               "some_fn"))),
                   Dead, NoRet, 1)
      ELSE Outcome(r1.self, Released(Option_dtor(invoke(view, "none_fn"))),
                   Dead, NoRet, 1)

\* r.as_ref().match([](auto ok) { ok.get() = v; },
\*                  [](auto err) { err.get() = w; })
Result_mutate(self, v, w) ==
  LET r1   == Result_as_ref(self)
      view == r1.out
  IN  IF is_ok(view)
      THEN Outcome(assign(r1.self, view.storage_value_, v),
                   Released(Result_dtor(invoke(move_from_value(view),
                                               "ok_fn"))),
                   Dead, NoRet, 1)
      ELSE Outcome(assign(r1.self, view.storage_err_, w),
                   Released(Result_dtor(invoke(move_from_err(view),
                                               "err_fn"))),
                   Dead, NoRet, 1)

\* x.as_cref().unwrap().get()
Option_cref_get(self) ==
  LET r1 == Option_as_cref(self)
      u  == Option_unwrap(r1.out)
  IN  IF u.panic THEN Panicked(r1.self)
      ELSE Outcome(read_value(r1.self), Released(Option_dtor(u.self)), Dead,
                   get(r1.self, u.ret), 0)

\* x.as_cref().unwrap().get()
Result_cref_get(self) ==
  LET r1 == Result_as_cref(self)
      u  == Result_unwrap(r1.out)
  IN  IF u.panic THEN Panicked(r1.self)
      ELSE Outcome(read_value(r1.self), Released(Result_dtor(u.self)), Dead,
                   get(r1.self, u.ret), 0)

\* T& y = x.value(); y = v;
Option_value_assign(self, v) ==
  LET r == Option_value(self)
  IN  IF r.panic THEN r
      ELSE Outcome(assign(r.self, MutRef("value"), v), Dead, Dead, NoRet, 0)

\* T& y = x.value(); y = v;
Result_value_assign(self, v) ==
  LET r == Result_value(self)
  IN  IF r.panic THEN r
      ELSE Outcome(assign(r.self, MutRef("value"), v), Dead, Dead, NoRet, 0)

\* E& y = x.err_value(); y = v;
Result_err_value_assign(self, v) ==
  LET r == Result_err_value(self)
  IN  IF r.panic THEN r
      ELSE Outcome(assign(r.self, MutRef("err"), v), Dead, Dead, NoRet, 0)

\* ---------------------------------------------------------------- and_then chains

\* The callables of the and_then chains: sq = [](int x) { return x * x; } of
\* the example and one more that returns a plain value.
ChainFns == {"inc", "sq"}

\* bool operator==(Ok<T> const& cmp) const
Result_eq_Ok(self, cmp) ==
  IF is_ok(self)
  THEN self.storage_value_ = cmp
  ELSE FALSE

\* bool operator==(Err<E> const& cmp) const
Result_eq_Err(self, cmp) ==
  IF is_ok(self)
  THEN FALSE
  ELSE self.storage_err_ = cmp

\* result_expr(v).and_then(f).and_then(g): three temporaries, destroyed at
\* the end of the full-expression in reverse order of construction.  ret is
\* the last one as the comparison of the expression sees it.
and_then_chain(result_expr, v, f, g) ==
  LET r1 == Result_and_then(Eval(result_expr, v), f)
      r2 == Result_and_then(r1.out, g)
  IN  Outcome(Released(Result_dtor(r1.self)),
              Released(Result_dtor(r2.self)),
              Released(Result_dtor(r2.out)),
              Settle(r2.out), r1.calls + r2.calls)

\* ---------------------------------------------------------------- steps

\* Marks an operand or a destination a call does not have.
NoName == "-"

LogOf(o) == IF InScope(o) THEN o.log ELSE <<>>

FaultsOf(o) == IF InScope(o) THEN o.faults ELSE {}

Observation(op, x, y, d, fn, v, r) ==
  [op |-> op, self |-> x, arg |-> y, dst |-> d, fn |-> fn, val |-> v,
   pre |-> IF x \in Names THEN obj[x] ELSE Dead,
   prearg |-> IF y \in Names THEN obj[y] ELSE Dead,
   ret |-> r.ret, calls |-> r.calls, panic |-> r.panic,
   log |-> LogOf(r.self), arglog |-> LogOf(r.arg)]

\* The messages and source locations a panic is triggered with.
PanicInfos == {"explicit panic", "called on the wrong variant"}

SourceLocations == {[tag |-> "loc", n |-> 1]}

\* A panic handler that hands control back to where the panic was triggered.
panic_abort_returns(info, location) == "running"

\* [[noreturn]] void panic_abort(std::string_view info,
\*                                SourceLocation location): std::abort()
panic_abort(info, location) == "aborted"

\* panic core: the handler is invoked and the process terminates; control
\* never returns to the caller.
Panic ==
  /\ panics' = panics + 1
  /\ \E info \in PanicInfos, location \in SourceLocations :
       pc' = panic_abort(info, location)

\* One call `op` made by the caller on object x, with other operand y, its
\* returned object placed in d, and r what the member function did.
Do(op, x, y, d, fn, v, r) ==
  /\ pc = "running"
  /\ ~InScope(obj[Temp])
  /\ last' = Observation(op, x, y, d, fn, v, r)
  /\ faults' = faults \cup FaultsOf(r.self) \cup FaultsOf(r.arg)
                      \cup FaultsOf(r.out)
  /\ IF r.panic
     THEN /\ Panic
          /\ obj' = [obj EXCEPT ![x] = Settle(r.self)]
     ELSE /\ UNCHANGED <<panics, pc>>
          /\ obj' = [n \in Names |->
                       IF n = x THEN Settle(r.self)
                       ELSE IF n = y THEN Settle(r.arg)
                       ELSE IF n = d THEN Settle(r.out)
                       ELSE obj[n]]
  /\ UNCHANGED bt

\* The end of an object's lifetime: its destructor `r` has run and its
\* storage is released; a member still alive then is never destroyed.
EndOfLife(op, x, r) ==
  /\ pc = "running"
  /\ x # Temp => ~InScope(obj[Temp])
  /\ last' = Observation(op, x, NoName, NoName, NoName, NoRet,
                         Outcome(r, Dead, Dead, NoRet, 0))
  /\ faults' = faults \cup r.faults
                 \cup (IF Alive(r.storage_value_)
                          \/ (IsResult(r) /\ Alive(r.storage_err_))
                       THEN {"leak"} ELSE {})
  /\ obj' = [obj EXCEPT ![x] = Dead]
  /\ UNCHANGED <<panics, pc, bt>>

Fresh(d) == d \in Locals /\ ~InScope(obj[d])

AnOption(x) == x \in Names /\ IsOption(obj[x])

AResult(x) == x \in Names /\ IsResult(obj[x])

\* `T d = <call>;`: the returned object is the caller's local d from now on
\* (the prvalue initialises d, no move is made).
Bind(d) ==
  /\ pc = "running"
  /\ Fresh(d)
  /\ InScope(obj[Temp])
  /\ obj' = [obj EXCEPT ![d] = obj[Temp], ![Temp] = Dead]
  /\ last' = [last EXCEPT !.dst = IF @ = Temp THEN d ELSE @]
  /\ UNCHANGED <<faults, panics, pc, bt>>

\* --- Option

OptionFromSome(d, v) ==
  /\ Fresh(d)
  /\ Do("Option(Some)", d, NoName, NoName, NoName, v,
        Outcome(Option_from_Some(v), Dead, Dead, NoRet, 0))

OptionFromNone(d) ==
  /\ Fresh(d)
  /\ Do("Option(None)", d, NoName, NoName, NoName, NoRet,
        Outcome(Option_from_None, Dead, Dead, NoRet, 0))

OptionMoveCtor(d, y) ==
  /\ Fresh(d) /\ AnOption(y)
  /\ Do("Option(Option&&)", d, y, NoName, NoName, NoRet,
        Option_move_ctor(obj[y]))

OptionMoveAssign(x, y) ==
  /\ AnOption(x) /\ AnOption(y)
  /\ Do("Option::operator=", x, y, NoName, NoName, NoRet,
        Option_move_assign(obj[x], obj[y]))

OptionDtor(x) ==
  /\ AnOption(x)
  /\ EndOfLife("~Option", x, Option_dtor(obj[x]))

OptionIsSome(x) ==
  /\ AnOption(x)
  /\ Do("Option::is_some", x, NoName, NoName, NoName, NoRet,
        Outcome(obj[x], Dead, Dead, Bool(is_some(obj[x])), 0))

OptionIsNone(x) ==
  /\ AnOption(x)
  /\ Do("Option::is_none", x, NoName, NoName, NoName, NoRet,
        Outcome(obj[x], Dead, Dead, Bool(is_none(obj[x])), 0))

OptionValue(x) ==
  /\ AnOption(x)
  /\ Do("Option::value", x, NoName, NoName, NoName, NoRet,
        Option_value(obj[x]))

OptionExpect(x) ==
  /\ AnOption(x)
  /\ Do("Option::expect", x, NoName, NoName, NoName, NoRet,
        Option_expect(obj[x]))

OptionUnwrap(x) ==
  /\ AnOption(x)
  /\ Do("Option::unwrap", x, NoName, NoName, NoName, NoRet,
        Option_unwrap(obj[x]))

OptionExpectNone(x) ==
  /\ AnOption(x)
  /\ Do("Option::expect_none", x, NoName, NoName, NoName, NoRet,
        Option_expect_none(obj[x]))

OptionUnwrapNone(x) ==
  /\ AnOption(x)
  /\ Do("Option::unwrap_none", x, NoName, NoName, NoName, NoRet,
        Option_unwrap_none(obj[x]))

OptionTake(x) ==
  /\ AnOption(x)
  /\ Do("Option::take", x, NoName, Temp, NoName, NoRet, Option_take(obj[x]))

OptionReplace(x, v) ==
  /\ AnOption(x)
  /\ Do("Option::replace", x, NoName, Temp, NoName, v,
        Option_replace(obj[x], v))

OptionReplaceCopy(x, v) ==
  /\ AnOption(x)
  /\ Do("Option::replace(const&)", x, NoName, Temp, NoName, v,
        Option_replace_copy(obj[x], v))

OptionMap(x, f) ==
  /\ AnOption(x)
  /\ is_some(obj[x]) => Invocable(f, obj[x].storage_value_)
  /\ Do("Option::map", x, NoName, Temp, f, NoRet, Option_map(obj[x], f))

\* --- Result

ResultFromOk(d, v) ==
  /\ Fresh(d)
  /\ Do("Result(Ok)", d, NoName, NoName, NoName, v,
        Outcome(Result_from_Ok(v), Dead, Dead, NoRet, 0))

ResultFromErr(d, e) ==
  /\ Fresh(d)
  /\ Do("Result(Err)", d, NoName, NoName, NoName, e,
        Outcome(Result_from_Err(e), Dead, Dead, NoRet, 0))

ResultMoveCtor(d, y) ==
  /\ Fresh(d) /\ AResult(y)
  /\ Do("Result(Result&&)", d, y, NoName, NoName, NoRet,
        Result_move_ctor(obj[y]))

ResultMoveAssign(x, y) ==
  /\ AResult(x) /\ AResult(y)
  /\ Do("Result::operator=", x, y, NoName, NoName, NoRet,
        Result_move_assign(obj[x], obj[y]))

ResultDtor(x) ==
  /\ AResult(x)
  /\ EndOfLife("~Result", x, Result_dtor(obj[x]))

ResultIsOk(x) ==
  /\ AResult(x)
  /\ Do("Result::is_ok", x, NoName, NoName, NoName, NoRet,
        Outcome(obj[x], Dead, Dead, Bool(is_ok(obj[x])), 0))

ResultIsErr(x) ==
  /\ AResult(x)
  /\ Do("Result::is_err", x, NoName, NoName, NoName, NoRet,
        Outcome(obj[x], Dead, Dead, Bool(is_err(obj[x])), 0))

ResultValue(x) ==
  /\ AResult(x)
  /\ Do("Result::value", x, NoName, NoName, NoName, NoRet,
        Result_value(obj[x]))

ResultErrValue(x) ==
  /\ AResult(x)
  /\ Do("Result::err_value", x, NoName, NoName, NoName, NoRet,
        Result_err_value(obj[x]))

ResultUnwrap(x) ==
  /\ AResult(x)
  /\ Do("Result::unwrap", x, NoName, NoName, NoName, NoRet,
        Result_unwrap(obj[x]))

ResultExpect(x) ==
  /\ AResult(x)
  /\ Do("Result::expect", x, NoName, NoName, NoName, NoRet,
        Result_expect(obj[x]))

ResultUnwrapErr(x) ==
  /\ AResult(x)
  /\ Do("Result::unwrap_err", x, NoName, NoName, NoName, NoRet,
        Result_unwrap_err(obj[x]))

ResultExpectErr(x) ==
  /\ AResult(x)
  /\ Do("Result::expect_err", x, NoName, NoName, NoName, NoRet,
        Result_expect_err(obj[x]))

ResultMap(x, f) ==
  /\ AResult(x)
  /\ is_ok(obj[x]) => Invocable(f, obj[x].storage_value_)
  /\ Do("Result::map", x, NoName, Temp, f, NoRet, Result_map(obj[x], f))

ResultMapErr(x, f) ==
  /\ AResult(x)
  /\ Do("Result::map_err", x, NoName, Temp, f, NoRet,
        Result_map_err(obj[x], f))

ResultAndThen(x, f) ==
  /\ AResult(x)
  /\ is_ok(obj[x]) => Invocable(f, obj[x].storage_value_)
  /\ Do("Result::and_then", x, NoName, Temp, f, NoRet,
        Result_and_then(obj[x], f))

\* --- combinators

ResultOrElse(x, f) ==
  /\ AResult(x)
  /\ is_err(obj[x]) => Invocable(f, obj[x].storage_err_)
  /\ Do("Result::or_else", x, NoName, Temp, f, NoRet,
        Result_or_else(obj[x], f))

ResultAND(x, y) ==
  /\ AResult(x) /\ AResult(y) /\ x # y
  /\ Do("Result::AND", x, y, Temp, NoName, NoRet,
        Result_AND(obj[x], obj[y]))

ResultOR(x, y) ==
  /\ AResult(x) /\ AResult(y) /\ x # y
  /\ Do("Result::OR", x, y, Temp, NoName, NoRet, Result_OR(obj[x], obj[y]))

ResultOk(x) ==
  /\ AResult(x)
  /\ Do("Result::ok", x, NoName, Temp, NoName, NoRet, Result_ok(obj[x]))

ResultErr(x) ==
  /\ AResult(x)
  /\ Do("Result::err", x, NoName, Temp, NoName, NoRet, Result_err(obj[x]))

OptionAND(x, y) ==
  /\ AnOption(x) /\ AnOption(y) /\ x # y
  /\ Do("Option::AND", x, y, Temp, NoName, NoRet,
        Option_AND(obj[x], obj[y]))

OptionOR(x, y) ==
  /\ AnOption(x) /\ AnOption(y) /\ x # y
  /\ Do("Option::OR", x, y, Temp, NoName, NoRet, Option_OR(obj[x], obj[y]))

OptionXOR(x, y) ==
  /\ AnOption(x) /\ AnOption(y) /\ x # y
  /\ Do("Option::XOR", x, y, Temp, NoName, NoRet,
        Option_XOR(obj[x], obj[y]))

OptionAndThen(x, f) ==
  /\ AnOption(x)
  /\ is_some(obj[x]) => Invocable(f, obj[x].storage_value_)
  /\ Do("Option::and_then", x, NoName, Temp, f, NoRet,
        Option_and_then(obj[x], f))

OptionFilter(x, f) ==
  /\ AnOption(x)
  /\ is_some(obj[x]) => Invocable(f, obj[x].storage_value_)
  /\ Do("Option::filter", x, NoName, Temp, f, NoRet,
        Option_filter(obj[x], f))

OptionFilterNot(x, f) ==
  /\ AnOption(x)
  /\ is_some(obj[x]) => Invocable(f, obj[x].storage_value_)
  /\ Do("Option::filter_not", x, NoName, Temp, f, NoRet,
        Option_filter_not(obj[x], f))

OptionOkOr(x, e) ==
  /\ AnOption(x)
  /\ Do("Option::ok_or", x, NoName, Temp, NoName, e,
        Option_ok_or(obj[x], e))

OptionOkOrElse(x, f) ==
  /\ AnOption(x)
  /\ Do("Option::ok_or_else", x, NoName, Temp, f, NoRet,
        Option_ok_or_else(obj[x], f))

\* `move(x).ok_or(e).ok()`: ok() is called on the Result that ok_or returned,
\* which is destroyed at the end of the full-expression.
OptionOkOrThenOk(x, e) ==
  /\ AnOption(x)
  /\ LET r1 == Option_ok_or(obj[x], e)
         r2 == Result_ok(r1.out)
     IN  Do("Option::ok_or.ok", x, NoName, Temp, NoName, e,
            Outcome(r1.self, Released(Result_dtor(r2.self)), r2.out, NoRet,
                    r1.calls + r2.calls))

\* `move(x).ok_or(e).err()`
OptionOkOrThenErr(x, e) ==
  /\ AnOption(x)
  /\ LET r1 == Option_ok_or(obj[x], e)
         r2 == Result_err(r1.out)
     IN  Do("Option::ok_or.err", x, NoName, Temp, NoName, e,
            Outcome(r1.self, Released(Result_dtor(r2.self)), r2.out, NoRet,
                    r1.calls + r2.calls))

OptionUnwrapOr(x, v) ==
  /\ AnOption(x)
  /\ Do("Option::unwrap_or", x, NoName, NoName, NoName, v,
        Option_unwrap_or(obj[x], v))

OptionUnwrapOrElse(x, f) ==
  /\ AnOption(x)
  /\ Do("Option::unwrap_or_else", x, NoName, NoName, f, NoRet,
        Option_unwrap_or_else(obj[x], f))

OptionEq(x, y) ==
  /\ AnOption(x) /\ AnOption(y)
  /\ Do("Option::operator==", x, y, NoName, NoName, NoRet,
        Outcome(obj[x], obj[y], Dead, Bool(Option_eq(obj[x], obj[y])), 0))

\* --- match, ==

OptionMatch(x, f, g) ==
  /\ AnOption(x)
  /\ is_some(obj[x]) => Invocable(f, obj[x].storage_value_)
  /\ Do("Option::match", x, NoName, NoName, <<f, g>>, NoRet,
        Option_match(obj[x], f, g))

ResultMatch(x, f, g) ==
  /\ AResult(x)
  /\ is_ok(obj[x]) => Invocable(f, obj[x].storage_value_)
  /\ is_err(obj[x]) => Invocable(g, obj[x].storage_err_)
  /\ Do("Result::match", x, NoName, NoName, <<f, g>>, NoRet,
        Result_match(obj[x], f, g))

OptionEqSome(x, v) ==
  /\ AnOption(x)
  /\ Do("Option::operator==(Some)", x, NoName, NoName, NoName, v,
        Outcome(obj[x], Dead, Dead, Bool(Option_eq_Some(obj[x], v)), 0))

OptionEqNone(x) ==
  /\ AnOption(x)
  /\ Do("Option::operator==(None)", x, NoName, NoName, NoName, NoRet,
        Outcome(obj[x], Dead, Dead, Bool(Option_eq_None(obj[x])), 0))

\* --- propagation macros

\* A function whose body is `TRY_OK(identifier, expr(v));` is called; the
\* Result it returns early, if any, is the caller's temporary.
TryOk(expr, v) ==
  Do("TRY_OK", NoName, NoName, Temp, expr, v, TRY_OK(expr, v))

TrySome(expr, v) ==
  Do("TRY_SOME", NoName, NoName, Temp, expr, v, TRY_SOME(expr, v))

\* --- panic

\* The caller triggers a panic itself, with a message and a location.
PanicCall(info, location) ==
  /\ pc = "running"
  /\ last' = Observation("panic", NoName, NoName, NoName, info, location,
                         Panicked(Dead))
  /\ panics' = panics + 1
  /\ pc' = panic_abort(info, location)
  /\ UNCHANGED <<obj, faults, bt>>

\* --- backtrace

\* The function on top of the stack calls `callee`.
Enter(caller, callee) ==
  /\ bt.phase = "calling"
  /\ Len(bt.stack) > 0 => bt.stack[Len(bt.stack)] = caller
  /\ Len(bt.stack) = 0 => caller = "runner"
  /\ bt' = [bt EXCEPT !.stack = Append(@, callee)]
  /\ UNCHANGED <<obj, last, faults, panics, pc>>

\* TEST(BacktraceTest, Backtrace) is run by the test runner.
RunTest ==
  /\ "TEST" \notin {bt.stack[i] : i \in 1..Len(bt.stack)}
  /\ Enter("runner", "TEST")

\* TEST(BacktraceTest, Backtrace) { a(); }
TEST_Backtrace == Enter("TEST", "a")

\* void a() { b(); }
Fn_a == Enter("a", "b")

\* void b() { c(); }
Fn_b == Enter("b", "c")

\* void c() { d(); }
Fn_c == Enter("c", "d")

\* void d() { backtrace::trace(callback); }: the walk begins at the innermost
\* frame, that of d.
Fn_d ==
  /\ bt.phase = "calling"
  /\ Len(bt.stack) > 0 /\ bt.stack[Len(bt.stack)] = "d"
  /\ bt' = [bt EXCEPT !.phase = "walking", !.walk = Len(bt.stack),
                      !.traced = bt.stack]
  /\ UNCHANGED <<obj, last, faults, panics, pc>>

\* backtrace::trace delivers the next frame to the callback and goes on to
\* the caller's frame, unless the callback asks to stop or the stack is
\* exhausted.
Deliver ==
  /\ bt.phase = "walking"
  /\ LET frame == bt.stack[bt.walk]
         i     == Len(bt.frames) + 1
     IN  bt' = [bt EXCEPT
                  !.frames = Append(@, frame),
                  !.walk = @ - 1,
                  !.phase = IF Stops(bt.cb, frame, i) \/ bt.walk = 1
                            THEN "walked" ELSE "walking"]
  /\ UNCHANGED <<obj, last, faults, panics, pc>>

\* backtrace::trace has returned; the functions return one after the other.
Return ==
  /\ bt.phase = "walked"
  /\ Len(bt.stack) > 0
  /\ bt.stack[Len(bt.stack)] # "runner"
  /\ bt' = [bt EXCEPT !.stack = SubSeq(@, 1, Len(@) - 1)]
  /\ UNCHANGED <<obj, last, faults, panics, pc>>

\* --- as_ref, as_cref, references returned by value() / err_value()

OptionAsRefMatch(x, v) ==
  /\ AnOption(x)
  /\ Do("Option::as_ref.match", x, NoName, NoName, NoName, v,
        Option_mutate(obj[x], v))

ResultAsRefMatch(x, v, w) ==
  /\ AResult(x)
  /\ Do("Result::as_ref.match", x, NoName, NoName, w, v,
        Result_mutate(obj[x], v, w))

OptionAsCrefGet(x) ==
  /\ AnOption(x)
  /\ Do("Option::as_cref.unwrap.get", x, NoName, NoName, NoName, NoRet,
        Option_cref_get(obj[x]))

ResultAsCrefGet(x) ==
  /\ AResult(x)
  /\ Do("Result::as_cref.unwrap.get", x, NoName, NoName, NoName, NoRet,
        Result_cref_get(obj[x]))

OptionValueAssign(x, v) ==
  /\ AnOption(x)
  /\ Do("Option::value=", x, NoName, NoName, NoName, v,
        Option_value_assign(obj[x], v))

ResultValueAssign(x, v) ==
  /\ AResult(x)
  /\ Do("Result::value=", x, NoName, NoName, NoName, v,
        Result_value_assign(obj[x], v))

ResultErrValueAssign(x, v) ==
  /\ AResult(x)
  /\ Do("Result::err_value=", x, NoName, NoName, NoName, v,
        Result_err_value_assign(obj[x], v))

\* --- and_then chains

\* `make_ok(v).and_then(f).and_then(g)` / `make_err(v).and_then(f).and_then(g)`
ResultAndThenChain(expr, v, f, g) ==
  Do("Result::and_then.and_then", NoName, NoName, NoName, <<expr, f, g>>, v,
     and_then_chain(expr, v, f, g))

\* ---------------------------------------------------------------- behaviours

Init ==
  /\ obj = [n \in Names |-> Dead]
  /\ last = [op |-> "init", self |-> NoName, arg |-> NoName, dst |-> NoName,
             fn |-> NoName, val |-> NoRet, pre |-> Dead, prearg |-> Dead,
             ret |-> NoRet,
             calls |-> 0, panic |-> FALSE, log |-> <<>>, arglog |-> <<>>]
  /\ faults = {}
  /\ panics = 0
  /\ pc = "running"
  /\ bt = NoTrace

Next ==
  \/ \E d \in Locals : Bind(d)
  \/ \E d \in Locals, v \in Vals : OptionFromSome(d, v)
  \/ \E d \in Locals : OptionFromNone(d)
  \/ \E d, y \in Locals : OptionMoveCtor(d, y)
  \/ \E x, y \in Locals : OptionMoveAssign(x, y)
  \/ \E x \in Names : OptionDtor(x)
  \/ \E x \in Locals : OptionIsSome(x)
  \/ \E x \in Locals : OptionIsNone(x)
  \/ \E x \in Locals : OptionValue(x)
  \/ \E x \in Locals : OptionExpect(x)
  \/ \E x \in Locals : OptionUnwrap(x)
  \/ \E x \in Locals : OptionExpectNone(x)
  \/ \E x \in Locals : OptionUnwrapNone(x)
  \/ \E x \in Locals : OptionTake(x)
  \/ \E x \in Locals, v \in Vals : OptionReplace(x, v)
  \/ \E x \in Locals, v \in Vals : OptionReplaceCopy(x, v)
  \/ \E x \in Locals, f \in PlainFns : OptionMap(x, f)
  \/ \E d \in Locals, v \in Vals : ResultFromOk(d, v)
  \/ \E d \in Locals, e \in Vals : ResultFromErr(d, e)
  \/ \E d, y \in Locals : ResultMoveCtor(d, y)
  \/ \E x, y \in Locals : ResultMoveAssign(x, y)
  \/ \E x \in Names : ResultDtor(x)
  \/ \E x \in Locals : ResultIsOk(x)
  \/ \E x \in Locals : ResultIsErr(x)
  \/ \E x \in Locals : ResultValue(x)
  \/ \E x \in Locals : ResultErrValue(x)
  \/ \E x \in Locals : ResultUnwrap(x)
  \/ \E x \in Locals : ResultExpect(x)
  \/ \E x \in Locals : ResultUnwrapErr(x)
  \/ \E x \in Locals : ResultExpectErr(x)
  \/ \E x \in Locals, f \in PlainFns : ResultMap(x, f)
  \/ \E x \in Locals, f \in PlainFns : ResultMapErr(x, f)
  \/ \E x \in Locals, f \in PlainFns \cup ResultFns : ResultAndThen(x, f)
  \/ \E x \in Locals, f \in ResultFns : ResultOrElse(x, f)
  \/ \E x, y \in Locals : ResultAND(x, y)
  \/ \E x, y \in Locals : ResultOR(x, y)
  \/ \E x \in Locals : ResultOk(x)
  \/ \E x \in Locals : ResultErr(x)
  \/ \E x, y \in Locals : OptionAND(x, y)
  \/ \E x, y \in Locals : OptionOR(x, y)
  \/ \E x, y \in Locals : OptionXOR(x, y)
  \/ \E x \in Locals, f \in OptionFns : OptionAndThen(x, f)
  \/ \E x \in Locals, f \in Predicates : OptionFilter(x, f)
  \/ \E x \in Locals, f \in Predicates : OptionFilterNot(x, f)
  \/ \E x \in Locals, e \in Vals : OptionOkOr(x, e)
  \/ \E x \in Locals, f \in NullaryFns : OptionOkOrElse(x, f)
  \/ \E x \in Locals, e \in Vals : OptionOkOrThenOk(x, e)
  \/ \E x \in Locals, e \in Vals : OptionOkOrThenErr(x, e)
  \/ \E x \in Locals, v \in Vals : OptionUnwrapOr(x, v)
  \/ \E x \in Locals, f \in NullaryFns : OptionUnwrapOrElse(x, f)
  \/ \E x, y \in Locals : OptionEq(x, y)
  \/ \E x \in Locals, f \in PlainFns, g \in NullaryFns : OptionMatch(x, f, g)
  \/ \E x \in Locals, f, g \in PlainFns : ResultMatch(x, f, g)
  \/ \E x \in Locals, v \in Vals : OptionEqSome(x, v)
  \/ \E x \in Locals : OptionEqNone(x)
  \/ \E expr \in ResultExprs, v \in Vals : TryOk(expr, v)
  \/ \E expr \in OptionExprs, v \in Vals : TrySome(expr, v)
  \/ \E info \in PanicInfos, location \in SourceLocations :
       PanicCall(info, location)
  \/ \E x \in Locals, v \in Vals : OptionAsRefMatch(x, v)
  \/ \E x \in Locals, v \in Vals, w \in Vals : ResultAsRefMatch(x, v, w)
  \/ \E x \in Locals : OptionAsCrefGet(x)
  \/ \E x \in Locals : ResultAsCrefGet(x)
  \/ \E x \in Locals, v \in Vals : OptionValueAssign(x, v)
  \/ \E x \in Locals, v \in Vals : ResultValueAssign(x, v)
  \/ \E x \in Locals, v \in Vals : ResultErrValueAssign(x, v)
  \/ \E expr \in ResultExprs, v \in Vals, f, g \in ChainFns :
       ResultAndThenChain(expr, v, f, g)

Spec == Init /\ [][Next]_vars

\* The backtrace test: the containers are left alone, the test runner has
\* some frames on the stack and the walk is given one of the consumers.
BtInit ==
  /\ obj = [n \in Names |-> Dead]
  /\ last = [op |-> "init", self |-> NoName, arg |-> NoName, dst |-> NoName,
             fn |-> NoName, val |-> NoRet, pre |-> Dead, prearg |-> Dead,
             ret |-> NoRet,
             calls |-> 0, panic |-> FALSE, log |-> <<>>, arglog |-> <<>>]
  /\ faults = {}
  /\ panics = 0
  /\ pc = "running"
  /\ \E k \in 0..MaxOuter, cb \in Callbacks : bt = Stack(k, cb)

BtNext ==
  \/ RunTest
  \/ TEST_Backtrace
  \/ Fn_a
  \/ Fn_b
  \/ Fn_c
  \/ Fn_d
  \/ Deliver
  \/ Return

BacktraceSpec == BtInit /\ [][BtNext]_vars

\* ---------------------------------------------------------------- properties

\* Event a comes before event b in a call's lifetime log.
Before(log, a, b) ==
  \E i, j \in 1..Len(log) : i < j /\ log[i] = a /\ log[j] = b

Events(log) == {log[i] : i \in 1..Len(log)}

\* The object the last call was made on, its other operand, and the object
\* it returned, as they are now.
Self == obj[last.self]

Arg == obj[last.arg]

Dst == obj[last.dst]

\* C1: in every reachable state the storage of an Option holds a live payload
\* exactly when it is Some, the storage of a Result holds a live T exactly
\* when it is Ok and a live E exactly when it is Err, and no payload was
\* destroyed twice, overwritten while alive, read while dead, or left alive
\* at the end of its container's lifetime.
C1_PayloadLifetimes ==
  /\ faults = {}
  /\ \A x \in Names :
       /\ IsOption(obj[x]) =>
            (Alive(obj[x].storage_value_) <=> ~obj[x].is_none_)
       /\ IsResult(obj[x]) =>
            /\ Alive(obj[x].storage_value_) <=> obj[x].is_ok_
            /\ Alive(obj[x].storage_err_) <=> ~obj[x].is_ok_

\* C1 witness: a Some Option was move-assigned from a None one, so a payload
\* was constructed in one slot and destroyed in the other.
C1_Witness ==
  /\ last.op = "Option::operator="
  /\ is_some(last.pre) /\ is_none(last.prearg)
  /\ Events(last.log) = {"move_from_value", "destroy_value"}
  /\ Events(last.arglog) = {"construct_value"}

\* C2 as stated: in each of the four combinations of Result move-assignment
\* the target's outgoing payload is destructed, as the type that was live,
\* before the incoming payload is constructed in the target.
C2_DestroyBeforeConstructAlways ==
  (last.op = "Result::operator=" /\ last.self # last.arg) =>
    Before(last.log,
           IF is_ok(last.pre) THEN "destroy_value" ELSE "destroy_err",
           IF is_ok(last.prearg) THEN "construct_value" ELSE "construct_err")

\* C2 amended: Result move-assignment handles all four combinations; when the
\* variants differ (Ok <- Err, Err <- Ok) the target's outgoing payload is
\* destructed as the type that was live and only then the incoming payload
\* is constructed; when they agree (Ok <- Ok, Err <- Err) the two payloads
\* are swapped and nothing is destructed or constructed.
C2_MoveAssign ==
  last.op = "Result::operator=" =>
    IF is_ok(last.pre) /\ is_err(last.prearg)
    THEN /\ last.log = <<"destroy_value", "construct_err">>
         /\ is_err(Self)
         /\ Self.storage_err_ = last.prearg.storage_err_
    ELSE IF is_err(last.pre) /\ is_ok(last.prearg)
    THEN /\ last.log = <<"destroy_err", "construct_value">>
         /\ is_ok(Self)
         /\ Self.storage_value_ = last.prearg.storage_value_
    ELSE IF is_ok(last.pre)
    THEN /\ last.log = <<"swap_value">>
         /\ is_ok(Self) /\ is_ok(Arg)
         /\ Self.storage_value_ = last.prearg.storage_value_
         /\ Arg.storage_value_ = last.pre.storage_value_
    ELSE /\ last.log = <<"swap_err">>
         /\ is_err(Self) /\ is_err(Arg)
         /\ Self.storage_err_ = last.prearg.storage_err_
         /\ Arg.storage_err_ = last.pre.storage_err_

\* C2 witness: an Err Result was move-assigned from an Ok one.
C2_Witness ==
  /\ last.op = "Result::operator="
  /\ is_err(last.pre) /\ is_ok(last.prearg)
  /\ is_ok(Self)

OptionTransitions ==
  {"Option::operator=", "Option::take", "Option::replace",
   "Option::replace(const&)"}

\* C3 as stated: every state transition of an Option that had a payload
\* destroys that payload before or while the new one is installed.
C3_OldPayloadDestroyed ==
  (/\ last.op \in OptionTransitions
   /\ is_some(last.pre)
   /\ last.self # last.arg) =>
    "destroy_value" \in Events(last.log)

\* C3 amended: every state transition of an Option takes the old payload out
\* of the container before or while the new one is installed: take and
\* Some <- None move-assignment move it out and destroy it in place; replace
\* on a Some and Some <- Some move-assignment swap it out, into the returned
\* Option or into the right-hand side, and run no destructor.  When the
\* operation returns the storage holds a live payload exactly when the
\* Option is Some, that payload is the incoming one, and no payload was
\* constructed over a live one.
C3_Transitions ==
  last.op \in OptionTransitions =>
    /\ "overwrite" \notin faults
    /\ Alive(Self.storage_value_) <=> is_some(Self)
    /\ last.op = "Option::take" =>
         /\ is_none(Self)
         /\ last.log = IF is_some(last.pre)
                       THEN <<"move_from_value", "destroy_value">> ELSE <<>>
         /\ is_some(last.pre) =>
              Dst.storage_value_ = last.pre.storage_value_
    /\ last.op \in {"Option::replace", "Option::replace(const&)"} =>
         /\ Self.storage_value_ = last.val
         /\ last.log = IF is_some(last.pre)
                       THEN <<"swap_value">> ELSE <<"construct_value">>
         /\ is_some(last.pre) =>
              Dst.storage_value_ = last.pre.storage_value_
    /\ last.op = "Option::operator=" =>
         /\ Self.storage_value_ = last.prearg.storage_value_
         /\ Arg.storage_value_ = last.pre.storage_value_
         /\ last.log =
              IF is_some(last.pre) /\ is_some(last.prearg)
              THEN <<"swap_value">>
              ELSE IF is_some(last.pre)
              THEN <<"move_from_value", "destroy_value">>
              ELSE IF is_some(last.prearg)
              THEN <<"construct_value">>
              ELSE <<>>

\* C3 witness: replace on a Some Option swapped the old payload out into the
\* returned Option.
C3_Witness ==
  /\ last.op = "Option::replace(const&)"
  /\ is_some(last.pre)
  /\ last.pre.storage_value_ # last.val
  /\ Self.storage_value_ = last.val
  /\ Dst.storage_value_ = last.pre.storage_value_

\* The Result a Result-returning callable's return value denotes.
AsResult(p) ==
  IF p.tag = "Ok" THEN Settle(Result_from_Ok(Plain(p.n)))
  ELSE Settle(Result_from_Err(Plain(p.n)))

\* C4 as stated: and_then is a monadic bind; on Ok(v) the outcome is the
\* Result that fn(v) produces, and on Err(e) fn is not invoked and the
\* outcome is Err(e).
C4_Bind ==
  (last.op = "Result::and_then" /\ last.fn \in ResultFns) =>
    IF is_ok(last.pre)
    THEN Dst = AsResult(Call(last.fn, last.pre.storage_value_))
    ELSE /\ last.calls = 0
         /\ Dst = Settle(Result_from_Err(last.pre.storage_err_))

\* C4 amended: on Ok(v) and_then invokes fn once and the outcome is
\* Ok(fn(v)), fn's return value wrapped as the success payload whatever fn
\* returns (a Result returned by fn becomes the payload of an Ok, the outcome
\* is never a failure); on Err(e) fn is not invoked and the outcome is Err(e)
\* with the payload unchanged.
C4_AndThenWraps ==
  last.op = "Result::and_then" =>
    IF is_ok(last.pre)
    THEN /\ last.calls = 1
         /\ Dst = Settle(Result_from_Ok(Call(last.fn,
                                             last.pre.storage_value_)))
    ELSE /\ last.calls = 0
         /\ Dst = Settle(Result_from_Err(last.pre.storage_err_))

\* C4 witness: and_then on an Ok with a callable that returns a failure gave
\* an Ok that holds that failure.
C4_Witness ==
  /\ last.op = "Result::and_then"
  /\ is_ok(last.pre)
  /\ last.fn = "mk_err"
  /\ is_ok(Dst)
  /\ Dst.storage_value_.tag = "Err"

\* C5: value(), unwrap() and expect() on a None Option, and expect_none() and
\* unwrap_none() on a Some Option, enter the panic path exactly once, hand
\* nothing back to the caller, and produce no reference to a payload that is
\* not there.
C5_OptionMisusePanics ==
  /\ (/\ last.op \in {"Option::value", "Option::unwrap", "Option::expect"}
      /\ is_none(last.pre)) =>
       /\ last.panic /\ panics = 1 /\ pc = "aborted"
       /\ last.ret = NoRet
       /\ last.log = <<>>
  /\ (/\ last.op \in {"Option::expect_none", "Option::unwrap_none"}
      /\ is_some(last.pre)) =>
       /\ last.panic /\ panics = 1 /\ pc = "aborted"
       /\ last.ret = NoRet
  /\ "dead_read" \notin faults

\* C5 witness: value() was called on a None Option.
C5_Witness ==
  /\ last.op = "Option::value"
  /\ is_none(last.pre)
  /\ pc = "aborted"

\* C6: on a Result value(), unwrap() and expect() panic exactly when it is
\* Err, err_value(), unwrap_err() and expect_err() panic exactly when it is
\* Ok, and otherwise they return the live payload.
C6_ResultAccessors ==
  /\ last.op \in {"Result::value", "Result::unwrap", "Result::expect"} =>
       /\ last.panic <=> is_err(last.pre)
       /\ last.panic => panics = 1 /\ pc = "aborted" /\ last.ret = NoRet
       /\ ~last.panic =>
            /\ last.ret = last.pre.storage_value_
            /\ Alive(last.ret)
            /\ panics = 0 /\ pc = "running"
  /\ last.op \in {"Result::err_value", "Result::unwrap_err",
                  "Result::expect_err"} =>
       /\ last.panic <=> is_ok(last.pre)
       /\ last.panic => panics = 1 /\ pc = "aborted" /\ last.ret = NoRet
       /\ ~last.panic =>
            /\ last.ret = last.pre.storage_err_
            /\ Alive(last.ret)
            /\ panics = 0 /\ pc = "running"

\* C6 witness: err_value() was called on an Ok Result.
C6_Witness ==
  /\ last.op = "Result::err_value"
  /\ is_ok(last.pre)
  /\ last.panic

\* C7: take() on Some(v) leaves the Option None and returns Some(v); take()
\* on None leaves it None and returns None.
C7_Take ==
  last.op = "Option::take" =>
    /\ is_none(Self)
    /\ Dst = IF is_some(last.pre)
             THEN Settle(Option_from_Some(last.pre.storage_value_))
             ELSE Settle(Option_from_None)

\* C7 witness: take() ran on a Some Option.
C7_Witness ==
  /\ last.op = "Option::take"
  /\ is_some(last.pre)
  /\ is_some(Dst)

\* C8: replace(x), by rvalue or by const reference, leaves the Option Some(x)
\* and returns Some(old) when it was Some(old) and None when it was None.
C8_Replace ==
  last.op \in {"Option::replace", "Option::replace(const&)"} =>
    /\ is_some(Self)
    /\ Self.storage_value_ = last.val
    /\ Dst = IF is_some(last.pre)
             THEN Settle(Option_from_Some(last.pre.storage_value_))
             ELSE Settle(Option_from_None)

\* C8 witness: replace(x) ran on a None Option.
C8_Witness ==
  /\ last.op = "Option::replace"
  /\ is_none(last.pre)
  /\ is_some(Self)
  /\ is_none(Dst)

\* C9: exactly one of is_some() / is_none() holds for every Option and
\* exactly one of is_ok() / is_err() for every Result, and a call of one of
\* them returns that answer and leaves the container as it was.
C9_ExactlyOneVariant ==
  /\ \A x \in Names :
       /\ IsOption(obj[x]) => (is_some(obj[x]) # is_none(obj[x]))
       /\ IsResult(obj[x]) => (is_ok(obj[x]) # is_err(obj[x]))
  /\ last.op \in {"Option::is_some", "Option::is_none", "Result::is_ok",
                  "Result::is_err"} =>
       /\ Self = last.pre
       /\ last.ret \in {Bool(TRUE), Bool(FALSE)}
       /\ last.op = "Option::is_some" =>
            (last.ret = Bool(TRUE) <=> ~last.pre.is_none_)
       /\ last.op = "Option::is_none" =>
            (last.ret = Bool(TRUE) <=> last.pre.is_none_)
       /\ last.op = "Result::is_ok" =>
            (last.ret = Bool(TRUE) <=> last.pre.is_ok_)
       /\ last.op = "Result::is_err" =>
            (last.ret = Bool(TRUE) <=> ~last.pre.is_ok_)

\* C9 witness: is_err() answered true on an Err Result.
C9_Witness ==
  /\ last.op = "Result::is_err"
  /\ last.ret = Bool(TRUE)
  /\ ~Self.is_ok_

\* C10: map invokes fn only on an Ok and yields Ok(fn(v)), forwarding an Err
\* payload unchanged; map_err invokes fn only on an Err and yields
\* Err(fn(e)), forwarding an Ok payload unchanged.
C10_MapAndMapErr ==
  /\ last.op = "Result::map" =>
       IF is_ok(last.pre)
       THEN /\ last.calls = 1
            /\ Dst = Settle(Result_from_Ok(Call(last.fn,
                                                last.pre.storage_value_)))
       ELSE /\ last.calls = 0
            /\ Dst = Settle(Result_from_Err(last.pre.storage_err_))
  /\ last.op = "Result::map_err" =>
       IF is_ok(last.pre)
       THEN /\ last.calls = 0
            /\ Dst = Settle(Result_from_Ok(last.pre.storage_value_))
       ELSE /\ last.calls = 1
            /\ Dst = Settle(Result_from_Err(Call(last.fn,
                                                 last.pre.storage_err_)))

\* C10 witness: map_err ran on an Ok Result and forwarded its payload.
C10_Witness ==
  /\ last.op = "Result::map_err"
  /\ is_ok(last.pre)
  /\ last.fn = "inc"
  /\ last.calls = 0
  /\ is_ok(Dst)
  /\ Dst.storage_value_ = last.pre.storage_value_

\* The container o is the one the callable's return value p stands for.
Denotes(o, p) ==
  CASE p.tag = "Ok"   -> /\ IsResult(o) /\ is_ok(o)
                         /\ o.storage_value_ = Plain(p.n)
                         /\ ~Alive(o.storage_err_)
    [] p.tag = "Err"  -> /\ IsResult(o) /\ is_err(o)
                         /\ o.storage_err_ = Plain(p.n)
                         /\ ~Alive(o.storage_value_)
    [] p.tag = "Some" -> /\ IsOption(o) /\ is_some(o)
                         /\ o.storage_value_ = Plain(p.n)
    [] p.tag = "None" -> /\ IsOption(o) /\ is_none(o)
                         /\ ~Alive(o.storage_value_)
    [] OTHER -> FALSE

\* C11: or_else is the dual of and_then: on Err(e) fn is invoked once and
\* the outcome is exactly the Result that fn(e) returns, not wrapped again;
\* on Ok(v) fn is not invoked and the outcome is Ok(v).
C11_OrElse ==
  last.op = "Result::or_else" =>
    IF is_err(last.pre)
    THEN /\ last.calls = 1
         /\ Denotes(Dst, Call(last.fn, last.pre.storage_err_))
    ELSE /\ last.calls = 0
         /\ Dst = Settle(Result_from_Ok(last.pre.storage_value_))

\* C11 witness: or_else on an Err with a callable that returns an Ok gave
\* that Ok.
C11_Witness ==
  /\ last.op = "Result::or_else"
  /\ is_err(last.pre)
  /\ last.fn = "mk_ok"
  /\ last.calls = 1
  /\ is_ok(Dst)
  /\ Dst.storage_value_ = last.pre.storage_err_

\* C12: for Results a and b, a.AND(b) is b when a is Ok and Err(a's error)
\* when a is Err, whatever b is; a.OR(b) is Ok(a's value) when a is Ok,
\* whatever b is, and b when a is Err.
C12_ResultAndOr ==
  /\ last.op = "Result::AND" =>
       Dst = IF is_ok(last.pre)
             THEN last.prearg
             ELSE Settle(Result_from_Err(last.pre.storage_err_))
  /\ last.op = "Result::OR" =>
       Dst = IF is_ok(last.pre)
             THEN Settle(Result_from_Ok(last.pre.storage_value_))
             ELSE last.prearg

\* C12 witness: AND of an Err with an Ok gave the Err of the left operand.
C12_Witness ==
  /\ last.op = "Result::AND"
  /\ is_err(last.pre) /\ is_ok(last.prearg)
  /\ is_err(Dst)
  /\ Dst.storage_err_ = last.pre.storage_err_

\* C13: for Options a and b, is_some of a.AND(b), a.OR(b) and a.XOR(b) is the
\* boolean AND, OR and XOR of is_some(a) and is_some(b); the payload of AND
\* is b's, the payload of OR is a's when a is Some and otherwise b's, and
\* the payload of XOR is that of the one operand that is Some.
C13_OptionAndOrXor ==
  /\ last.op = "Option::AND" =>
       /\ is_some(Dst) <=> (is_some(last.pre) /\ is_some(last.prearg))
       /\ is_some(Dst) => Dst.storage_value_ = last.prearg.storage_value_
  /\ last.op = "Option::OR" =>
       /\ is_some(Dst) <=> (is_some(last.pre) \/ is_some(last.prearg))
       /\ is_some(Dst) =>
            Dst.storage_value_ = IF is_some(last.pre)
                                 THEN last.pre.storage_value_
                                 ELSE last.prearg.storage_value_
  /\ last.op = "Option::XOR" =>
       /\ is_some(Dst) <=> (is_some(last.pre) # is_some(last.prearg))
       /\ is_some(Dst) =>
            Dst.storage_value_ = IF is_some(last.pre)
                                 THEN last.pre.storage_value_
                                 ELSE last.prearg.storage_value_
  /\ last.op \in {"Option::AND", "Option::OR", "Option::XOR"} =>
       /\ IsOption(Dst)
       /\ is_none(Dst) => ~Alive(Dst.storage_value_)

\* C13 witness: XOR of two Some Options with different payloads gave None.
C13_Witness ==
  /\ last.op = "Option::XOR"
  /\ is_some(last.pre) /\ is_some(last.prearg)
  /\ last.pre.storage_value_ # last.prearg.storage_value_
  /\ is_none(Dst)

\* C14: Option::and_then short-circuits: on None it never invokes fn and
\* yields None; on Some(v) it invokes fn exactly once and yields exactly the
\* Option that fn(v) returns.
C14_OptionAndThen ==
  last.op = "Option::and_then" =>
    IF is_none(last.pre)
    THEN /\ last.calls = 0
         /\ Dst = Settle(Option_from_None)
    ELSE /\ last.calls = 1
         /\ Denotes(Dst, Call(last.fn, last.pre.storage_value_))

\* C14 witness: and_then on a Some with a callable that returns None gave
\* None after one invocation.
C14_Witness ==
  /\ last.op = "Option::and_then"
  /\ is_some(last.pre)
  /\ last.fn = "mk_none"
  /\ last.calls = 1
  /\ is_none(Dst)

\* C15: Option::map invokes fn at most once, and exactly once when the
\* Option is Some(v), yielding Some(fn(v)); on None it does not invoke fn and
\* yields None.
C15_OptionMap ==
  last.op = "Option::map" =>
    /\ last.calls <= 1
    /\ IF is_some(last.pre)
       THEN /\ last.calls = 1
            /\ Dst = Settle(Option_from_Some(Call(last.fn,
                                                  last.pre.storage_value_)))
       ELSE /\ last.calls = 0
            /\ Dst = Settle(Option_from_None)

\* C15 witness: map ran on a Some with a callable that changes the payload.
C15_Witness ==
  /\ last.op = "Option::map"
  /\ is_some(last.pre)
  /\ last.fn = "inc"
  /\ last.calls = 1
  /\ is_some(Dst)
  /\ Dst.storage_value_ # last.pre.storage_value_

\* C16: mapping an Option with the identity function yields a container
\* that operator== finds equal to the original, for a Some(v) and for a None
\* input (functor identity law).
C16_MapIdentity ==
  (last.op = "Option::map" /\ last.fn = "id") =>
    /\ Option_eq(Dst, last.pre)
    /\ Option_eq(last.pre, Dst)

\* C16 witness: map(id) ran on a None Option and gave None.
C16_Witness ==
  /\ last.op = "Option::map"
  /\ last.fn = "id"
  /\ is_none(last.pre)
  /\ is_none(Dst)

\* C17: filter(p) yields Some(v) only when the Option is Some(v) and p(v) is
\* true, filter_not(p) only when it is Some(v) and p(v) is false; otherwise
\* the result is None.  The predicate is invoked only on a Some, at most
\* once, and the kept payload equals the original.
C17_Filter ==
  /\ last.op = "Option::filter" =>
       /\ is_some(Dst) <=>
            (is_some(last.pre) /\ Test(last.fn, last.pre.storage_value_))
  /\ last.op = "Option::filter_not" =>
       /\ is_some(Dst) <=>
            (is_some(last.pre) /\ ~Test(last.fn, last.pre.storage_value_))
  /\ last.op \in {"Option::filter", "Option::filter_not"} =>
       /\ IsOption(Dst)
       /\ last.calls = IF is_some(last.pre) THEN 1 ELSE 0
       /\ is_some(Dst) => Dst.storage_value_ = last.pre.storage_value_
       /\ is_none(Dst) => ~Alive(Dst.storage_value_)

\* C17 witness: filter_not kept the payload of a Some on which the predicate
\* is false.
C17_Witness ==
  /\ last.op = "Option::filter_not"
  /\ is_some(last.pre)
  /\ ~Test(last.fn, last.pre.storage_value_)
  /\ last.calls = 1
  /\ is_some(Dst)
  /\ Dst.storage_value_ = last.pre.storage_value_

\* C18: ok_or(e) yields Ok(v) for Some(v) and Err(e) for None; ok_or_else(fn)
\* yields Ok(v) for Some(v) without invoking fn, and Err(fn()) for None,
\* invoking fn exactly once.
C18_OkOr ==
  /\ last.op = "Option::ok_or" =>
       /\ last.calls = 0
       /\ Dst = IF is_some(last.pre)
                THEN Settle(Result_from_Ok(last.pre.storage_value_))
                ELSE Settle(Result_from_Err(last.val))
  /\ last.op = "Option::ok_or_else" =>
       IF is_some(last.pre)
       THEN /\ last.calls = 0
            /\ Dst = Settle(Result_from_Ok(last.pre.storage_value_))
       ELSE /\ last.calls = 1
            /\ Dst = Settle(Result_from_Err(Call0(last.fn)))

\* C18 witness: ok_or_else ran on a None Option and gave Err(fn()).
C18_Witness ==
  /\ last.op = "Option::ok_or_else"
  /\ is_none(last.pre)
  /\ last.calls = 1
  /\ is_err(Dst)
  /\ Dst.storage_err_ = Call0(last.fn)

\* C19: converting a Result to an Option keeps exactly one side:
\* Ok(v).ok() == Some(v), Err(e).ok() == None, Err(e).err() == Some(e) and
\* Ok(v).err() == None; consequently Some(v).ok_or(e).ok() == Some(v) and
\* None.ok_or(e).err() == Some(e).
C19_OkErr ==
  /\ last.op = "Result::ok" =>
       Dst = IF is_ok(last.pre)
             THEN Settle(Option_from_Some(last.pre.storage_value_))
             ELSE Settle(Option_from_None)
  /\ last.op = "Result::err" =>
       Dst = IF is_ok(last.pre)
             THEN Settle(Option_from_None)
             ELSE Settle(Option_from_Some(last.pre.storage_err_))
  /\ (last.op = "Option::ok_or.ok" /\ is_some(last.pre)) =>
       Dst = Settle(Option_from_Some(last.pre.storage_value_))
  /\ (last.op = "Option::ok_or.err" /\ is_none(last.pre)) =>
       Dst = Settle(Option_from_Some(last.val))

\* C19 witness: None.ok_or(e).err() gave Some(e).
C19_Witness ==
  /\ last.op = "Option::ok_or.err"
  /\ is_none(last.pre)
  /\ is_some(Dst)
  /\ Dst.storage_value_ = last.val

\* C20: unwrap_or(alt) returns the payload when Some and alt when None;
\* unwrap_or_else(fn) returns the payload when Some without invoking fn, and
\* fn() when None, invoking fn exactly once.  Neither enters the panic path.
C20_UnwrapOr ==
  /\ last.op = "Option::unwrap_or" =>
       /\ last.calls = 0
       /\ last.ret = IF is_some(last.pre)
                     THEN last.pre.storage_value_ ELSE last.val
  /\ last.op = "Option::unwrap_or_else" =>
       IF is_some(last.pre)
       THEN last.calls = 0 /\ last.ret = last.pre.storage_value_
       ELSE last.calls = 1 /\ last.ret = Call0(last.fn)
  /\ last.op \in {"Option::unwrap_or", "Option::unwrap_or_else"} =>
       /\ ~last.panic
       /\ panics = 0
       /\ pc = "running"
       /\ Alive(last.ret)

\* C20 witness: unwrap_or_else ran on a None Option and returned fn().
C20_Witness ==
  /\ last.op = "Option::unwrap_or_else"
  /\ is_none(last.pre)
  /\ last.calls = 1
  /\ last.ret = Call0(last.fn)
  /\ pc = "running"

\* C21: match on an Option or a Result invokes exactly one of its two branch
\* functions, exactly once, namely the one for the live variant, passing it
\* the live payload where there is one; it returns that branch's result and
\* never enters the panic path, in either variant.
C21_Match ==
  /\ last.op = "Option::match" =>
       IF is_some(last.pre)
       THEN /\ last.log = <<"move_from_value", "some_fn">>
            /\ last.ret = Call(last.fn[1], last.pre.storage_value_)
       ELSE /\ last.log = <<"none_fn">>
            /\ last.ret = Call0(last.fn[2])
  /\ last.op = "Result::match" =>
       IF is_ok(last.pre)
       THEN /\ last.log = <<"move_from_value", "ok_fn">>
            /\ last.ret = Call(last.fn[1], last.pre.storage_value_)
       ELSE /\ last.log = <<"move_from_err", "err_fn">>
            /\ last.ret = Call(last.fn[2], last.pre.storage_err_)
  /\ last.op \in {"Option::match", "Result::match"} =>
       /\ last.calls = 1
       /\ ~last.panic
       /\ panics = 0
       /\ pc = "running"

\* C21 witness: match on an Err Result ran its error branch on the payload.
C21_Witness ==
  /\ last.op = "Result::match"
  /\ is_err(last.pre)
  /\ last.fn = <<"id", "inc">>
  /\ last.log = <<"move_from_err", "err_fn">>
  /\ last.ret = Call("inc", last.pre.storage_err_)

\* C22: two Options compare equal iff both are None, or both are Some with
\* equal payloads; an Option equals None iff is_none(), and equals Some(v)
\* iff it is Some with a payload equal to v.  Comparison changes neither
\* operand.
C22_OptionEquality ==
  /\ last.op = "Option::operator==" =>
       /\ last.ret = Bool(\/ is_none(last.pre) /\ is_none(last.prearg)
                          \/ /\ is_some(last.pre) /\ is_some(last.prearg)
                             /\ last.pre.storage_value_
                                  = last.prearg.storage_value_)
       /\ Self = last.pre
       /\ Arg = last.prearg
  /\ last.op = "Option::operator==(Some)" =>
       /\ last.ret = Bool(/\ is_some(last.pre)
                          /\ last.pre.storage_value_ = last.val)
       /\ Self = last.pre
  /\ last.op = "Option::operator==(None)" =>
       /\ last.ret = Bool(last.pre.is_none_)
       /\ Self = last.pre

\* C22 witness: a None Option was compared with None and found equal.
C22_Witness ==
  /\ last.op = "Option::operator==(None)"
  /\ is_none(last.pre)
  /\ last.ret = Bool(TRUE)

\* C23: TRY_OK / TRY_SOME evaluate the source expression exactly once; when
\* it is Err(e) (resp. None) the enclosing function returns Err(e) (resp.
\* None) at once and nothing is bound; when it is Ok(v) (resp. Some(v)) the
\* named local is bound to v, nothing is returned by the macro and execution
\* continues.
C23_TryMacros ==
  /\ last.op = "TRY_OK" =>
       /\ last.calls = 1
       /\ IF last.fn = "make_err"
          THEN /\ Dst = Settle(Result_from_Err(last.val))
               /\ last.ret = NoRet
               /\ last.log = <<"construct_err", "move_from_err", "return",
                               "destroy_err">>
          ELSE /\ last.ret = last.val
               /\ ~InScope(Dst)
               /\ last.log = <<"construct_value", "move_from_value", "bind",
                               "destroy_value">>
  /\ last.op = "TRY_SOME" =>
       /\ last.calls = 1
       /\ IF last.fn = "make_none"
          THEN /\ Dst = Settle(Option_from_None)
               /\ last.ret = NoRet
               /\ last.log = <<"return">>
          ELSE /\ last.ret = last.val
               /\ ~InScope(Dst)
               /\ last.log = <<"construct_value", "move_from_value", "bind",
                               "destroy_value">>

\* C23 witness: TRY_OK on an expression that gave Ok(v) bound v and returned
\* nothing.
C23_Witness ==
  /\ last.op = "TRY_OK"
  /\ last.fn = "make_ok"
  /\ last.calls = 1
  /\ last.ret = last.val
  /\ "bind" \in Events(last.log)
  /\ ~InScope(Dst)

\* C30: the propagation macros never reach the panic path: in every
\* execution of TRY_OK / TRY_SOME unwrap_err() is called only on a container
\* that is Err and unwrap() only on one that is Ok (resp. Some), for both
\* variants of the source expression.
C30_TryNeverPanics ==
  last.op \in {"TRY_OK", "TRY_SOME"} =>
    /\ ~last.panic
    /\ panics = 0
    /\ pc = "running"
    /\ "move_from_err" \in Events(last.log) => last.fn = "make_err"
    /\ "move_from_value" \in Events(last.log) =>
         last.fn \in {"make_ok", "make_some"}
    /\ "dead_read" \notin faults

\* C30 witness: TRY_SOME on an expression that gave None returned without
\* calling unwrap().
C30_Witness ==
  /\ last.op = "TRY_SOME"
  /\ last.fn = "make_none"
  /\ last.log = <<"return">>
  /\ pc = "running"
  /\ is_none(Dst)

\* C24: a panic is terminal: a step that triggers a panic, whatever the
\* message and the location, ends with the handler having terminated the
\* process, and no step is ever taken after that: control never returns to
\* the caller.
C24_PanicTerminal ==
  [][/\ pc = "running"
     /\ panics' # panics => (panics' = panics + 1 /\ pc' = "aborted")
     /\ pc' = "aborted" => last'.panic]_vars

\* C24 witness: a panic triggered by the caller has terminated the process.
C24_Witness ==
  /\ last.op = "panic"
  /\ last.fn \in PanicInfos
  /\ last.val \in SourceLocations
  /\ panics = 1
  /\ pc = "aborted"


\* C25: backtrace::trace hands the callback the frames of the calling thread
\* innermost first, each frame once; a callback that returns the stop signal
\* is given no further frame; otherwise the walk goes on exactly until the
\* stack is exhausted.  With the never-stopping callback of the test the
\* chain a -> b -> c -> d yields at least four frames: d, c, b, a.
C25_BacktraceWalk ==
  LET n     == Len(bt.frames)
      depth == Len(bt.traced)
  IN  /\ n <= depth
      /\ \A j \in 1..n : bt.frames[j] = bt.traced[depth + 1 - j]
      /\ \A j \in 1..n : j < n => ~Stops(bt.cb, bt.frames[j], j)
      /\ bt.phase = "walking" => n < depth /\ bt.walk = depth - n
      /\ bt.phase = "walked" =>
           \/ n = depth
           \/ n > 0 /\ Stops(bt.cb, bt.frames[n], n)
      /\ bt.phase = "walked" /\ bt.cb = "log_frame" =>
           /\ n >= 4
           /\ SubSeq(bt.frames, 1, 4) = <<"d", "c", "b", "a">>

C25_Witness ==
  /\ bt.phase = "walked"
  /\ bt.cb = "log_frame"
  /\ Len(bt.frames) > 4
  /\ bt.frames[Len(bt.frames)] = "runner"


\* C26: as_ref() / as_cref() give a view of the same variant as the original
\* whose payload is the original's payload: what is written through the
\* mutable view, or through the reference value() / err_value() returns, is
\* the original's payload afterwards, what is read through the const view is
\* the original's payload, the original keeps its variant, and the view of a
\* None is a None.
C26_ViewsAlias ==
  /\ last.op = "Option::as_ref.match" =>
       /\ ~last.panic
       /\ Self.is_none_ = last.pre.is_none_
       /\ IF is_some(last.pre)
          THEN /\ Events(last.arglog) \cap {"some_fn", "none_fn"} = {"some_fn"}
               /\ Self.storage_value_ = last.val
          ELSE /\ Events(last.arglog) \cap {"some_fn", "none_fn"} = {"none_fn"}
               /\ Self = last.pre
  /\ last.op = "Result::as_ref.match" =>
       /\ ~last.panic
       /\ Self.is_ok_ = last.pre.is_ok_
       /\ IF is_ok(last.pre)
          THEN /\ Events(last.arglog) \cap {"ok_fn", "err_fn"} = {"ok_fn"}
               /\ Self.storage_value_ = last.val
               /\ Self.storage_err_ = last.pre.storage_err_
          ELSE /\ Events(last.arglog) \cap {"ok_fn", "err_fn"} = {"err_fn"}
               /\ Self.storage_err_ = last.fn
               /\ Self.storage_value_ = last.pre.storage_value_
  /\ last.op = "Option::as_cref.unwrap.get" =>
       /\ last.panic <=> is_none(last.pre)
       /\ Self = last.pre
       /\ ~last.panic => last.ret = last.pre.storage_value_
  /\ last.op = "Result::as_cref.unwrap.get" =>
       /\ last.panic <=> is_err(last.pre)
       /\ Self = last.pre
       /\ ~last.panic => last.ret = last.pre.storage_value_
  /\ last.op = "Option::value=" =>
       /\ last.panic <=> is_none(last.pre)
       /\ Self.is_none_ = last.pre.is_none_
       /\ ~last.panic => Self.storage_value_ = last.val
  /\ last.op = "Result::value=" =>
       /\ last.panic <=> is_err(last.pre)
       /\ Self.is_ok_ = last.pre.is_ok_
       /\ Self.storage_err_ = last.pre.storage_err_
       /\ ~last.panic => Self.storage_value_ = last.val
  /\ last.op = "Result::err_value=" =>
       /\ last.panic <=> is_ok(last.pre)
       /\ Self.is_ok_ = last.pre.is_ok_
       /\ Self.storage_value_ = last.pre.storage_value_
       /\ ~last.panic => Self.storage_err_ = last.val
  /\ faults \cap {"dead_write"} = {}

C26_Witness ==
  /\ last.op = "Option::as_ref.match"
  /\ is_some(last.pre)
  /\ last.pre.storage_value_ # last.val
  /\ Self.storage_value_ = last.val


\* C27: with callables that return a plain value, and_then on make_ok(v)
\* compares equal to Ok(f(v)) and on make_err(e) to Err(e); chained,
\* make_ok(v).and_then(f).and_then(g) == Ok(g(f(v))) with each callable
\* invoked once, in particular make_ok(2).and_then(sq).and_then(sq) ==
\* Ok(16), and make_err(e).and_then(f).and_then(g) == Err(e) with no callable
\* invoked.
C27_AndThenChain ==
  /\ (last.op = "Result::and_then" /\ last.fn \in PlainFns) =>
       IF is_ok(last.pre)
       THEN Result_eq_Ok(Dst, Call(last.fn, last.pre.storage_value_))
       ELSE Result_eq_Err(Dst, last.pre.storage_err_)
  /\ last.op = "Result::and_then.and_then" =>
       LET expr == last.fn[1]
           f    == last.fn[2]
           g    == last.fn[3]
       IN  /\ expr = "make_ok" =>
                /\ Result_eq_Ok(last.ret, Call(g, Call(f, last.val)))
                /\ ~Result_eq_Err(last.ret, last.val)
                /\ last.calls = 2
           /\ expr = "make_err" =>
                /\ Result_eq_Err(last.ret, last.val)
                /\ last.calls = 0
           /\ (expr = "make_ok" /\ last.val = Plain(2)
               /\ f = "sq" /\ g = "sq") =>
                Result_eq_Ok(last.ret, Plain(16))

C27_Witness ==
  /\ last.op = "Result::and_then.and_then"
  /\ last.fn = <<"make_ok", "sq", "sq">>
  /\ last.val = Plain(2)
  /\ Result_eq_Ok(last.ret, Plain(16))
  /\ faults = {}


\* What is_some() of an Option, is_ok() of a Result answers.
Discriminant(o) == IF IsOption(o) THEN is_some(o) ELSE is_ok(o)

\* The operations that consume the container they are called on.
ConsumingOps ==
  {"Option::unwrap", "Option::expect", "Option::map", "Option::and_then",
   "Option::match", "Result::unwrap", "Result::expect", "Result::map",
   "Result::and_then", "Result::ok", "Result::err", "Result::match"}

\* The operations that consume their argument.
MoveCtors == {"Option(Option&&)", "Result(Result&&)"}

C28_Step ==
  /\ \A x \in Names :
       (InScope(obj[x]) /\ InScope(obj'[x])) =>
         /\ obj'[x].kind = obj[x].kind
         /\ Discriminant(obj'[x]) # Discriminant(obj[x]) =>
              /\ x \in {last'.self, last'.arg}
              /\ IsOption(obj[x]) => last'.op \in OptionTransitions
              /\ IsResult(obj[x]) => last'.op = "Result::operator="
  /\ (last' # last /\ last'.op \in ConsumingOps) =>
       /\ InScope(obj'[last'.self])
       /\ Discriminant(obj'[last'.self]) = Discriminant(obj[last'.self])
  /\ (last' # last /\ last'.op \in MoveCtors) =>
       /\ InScope(obj'[last'.arg])
       /\ Discriminant(obj'[last'.arg]) = Discriminant(obj[last'.arg])

\* C28: no step in which a container is consumed (move-construction from
\* it, unwrap, expect, map, and_then, ok, err, match) changes what its
\* is_some() / is_ok() answers, and a step that changes the discriminant of
\* an Option is a take, a replace or a move-assignment (of a Result, a
\* move-assignment).
C28_DiscriminantKept == [][C28_Step]_vars

\* C28 witness: unwrap moved the payload out of a Some Option, which is still
\* Some.
C28_Witness ==
  /\ last.op = "Option::unwrap"
  /\ is_some(last.pre)
  /\ ~last.panic
  /\ is_some(Self)
  /\ Self.storage_value_ = Moved(last.pre.storage_value_)
  /\ last.ret = last.pre.storage_value_
  /\ last.ret \in Vals


\* C29: move-assignment between two Options exchanges their states in all
\* four variant combinations: after a = std::move(b), a is what b was and b
\* is what a was (Some <- Some swaps the payloads, Some <- None leaves a None
\* and b Some of a's payload, None <- Some leaves b None, None <- None changes
\* nothing); assigning an Option to itself leaves it as it was.
C29_MoveAssignExchanges ==
  last.op = "Option::operator=" =>
    IF last.self = last.arg
    THEN Self = last.pre
    ELSE /\ Self = last.prearg
         /\ Arg = last.pre
         /\ (is_some(last.pre) /\ is_some(last.prearg)) =>
              /\ is_some(Self) /\ is_some(Arg)
              /\ Self.storage_value_ = last.prearg.storage_value_
              /\ Arg.storage_value_ = last.pre.storage_value_
         /\ (is_some(last.pre) /\ is_none(last.prearg)) =>
              /\ is_none(Self) /\ is_some(Arg)
              /\ Arg.storage_value_ = last.pre.storage_value_
         /\ (is_none(last.pre) /\ is_some(last.prearg)) =>
              /\ is_some(Self) /\ is_none(Arg)
              /\ Self.storage_value_ = last.prearg.storage_value_
         /\ (is_none(last.pre) /\ is_none(last.prearg)) =>
              is_none(Self) /\ is_none(Arg)

\* C29 witness: two Some Options with different payloads were move-assigned
\* and hold each other's payload.
C29_Witness ==
  /\ last.op = "Option::operator="
  /\ last.self # last.arg
  /\ is_some(last.pre) /\ is_some(last.prearg)
  /\ last.pre.storage_value_ \in Vals
  /\ last.prearg.storage_value_ \in Vals
  /\ last.pre.storage_value_ # last.prearg.storage_value_
  /\ Arg.storage_value_ = last.pre.storage_value_
  /\ Self.storage_value_ = last.prearg.storage_value_

====
